---------------------------- MODULE Spec2Model ----------------------------
(***************************************************************************)
(* Model of ntv2_to_gtiff.py: generate_optimized_file, the rewrite of a    *)
(* baseline TIFF container into the optimized layout, and the per-grid     *)
(* loop of create_unoptimized_file.                                        *)
(*                                                                         *)
(* Files are byte strings.  A byte string is kept run-length encoded, as a *)
(* sequence of runs <<byte, end>>: the run holds the bytes from the end of *)
(* the run before it (0 for the first) up to, not including, offset end.   *)
(* No run is empty and no two adjacent runs carry the same byte, so that   *)
(* two byte strings are equal exactly when their encodings are equal, and  *)
(* a payload of 70000 equal bytes costs one run.                           *)
(***************************************************************************)
EXTENDS Integers, Sequences, FiniteSets, TLC

(***************************************************************************)
(* Byte strings                                                            *)
(***************************************************************************)

\* len(data)
BLen(r) == IF r = <<>> THEN 0 ELSE r[Len(r)][2]

\* n copies of byte b
Fill(b, n) == IF n <= 0 THEN <<>> ELSE << <<b, n>> >>

\* the run of r, among runs lo..hi, that holds offset off
RECURSIVE Bisect(_, _, _, _)
Bisect(r, lo, hi, off) ==
    IF lo >= hi THEN lo
    ELSE LET mid == (lo + hi) \div 2
         IN  IF r[mid][2] > off THEN Bisect(r, lo, mid, off)
             ELSE Bisect(r, mid + 1, hi, off)

\* the run of r that holds offset off, 0 <= off < len(r)
RunOf(r, off) == Bisect(r, 1, Len(r), off)

\* the runs of r, moved d bytes up the file
Shift(r, d) == [i \in 1..Len(r) |-> <<r[i][1], r[i][2] + d>>] \o <<>>

\* the runs a followed by the runs b, which start where a ends
Glue(a, b) ==
    IF a = <<>> THEN b
    ELSE IF b = <<>> THEN a
    ELSE IF a[Len(a)][1] = b[1][1] THEN SubSeq(a, 1, Len(a) - 1) \o b
    ELSE a \o b

\* a + b
BCat(a, b) == Glue(a, Shift(b, BLen(a)))

\* data[:n]
BTake(r, n) ==
    IF n <= 0 THEN <<>>
    ELSE IF n >= BLen(r) THEN r
    ELSE LET i == RunOf(r, n - 1)
         IN  SubSeq(r, 1, i - 1) \o << <<r[i][1], n>> >>

\* the runs of data[n:], left where they are in data
Rest(r, n) ==
    IF n <= 0 THEN r
    ELSE IF n >= BLen(r) THEN <<>>
    ELSE SubSeq(r, RunOf(r, n), Len(r))

\* data[n:]
BDrop(r, n) == Shift(Rest(r, n), 0 - n)

\* the byte string of a sequence of byte values
RECURSIVE FromBytes(_)
FromBytes(s) ==
    IF s = <<>> THEN <<>>
    ELSE BCat(FromBytes(SubSeq(s, 1, Len(s) - 1)), << <<s[Len(s)], 1>> >>)

\* the byte values of a (short) byte string
ToBytes(r) == [i \in 1..BLen(r) |-> r[RunOf(r, i - 1)][1]] \o <<>>

\* f.seek(off); f.read(n): short when the file ends before off + n
ReadAt(f, off, n) ==
    LET end == IF off + n > BLen(f) THEN BLen(f) ELSE off + n
        part == SubSeq(f, RunOf(f, off), RunOf(f, end - 1))
    IN  IF off >= end THEN <<>>
        ELSE [k \in 1..Len(part) |->
                 <<part[k][1],
                   (IF k = Len(part) THEN end ELSE part[k][2]) - off>>] \o <<>>

\* f.seek(off); f.write(data): a seek past the end leaves a hole of zeros
WriteAt(f, off, data) ==
    LET flen == BLen(f)
        head == IF off > flen THEN Glue(f, << <<0, off>> >>)
                ELSE BTake(f, off)
    IN  IF data = <<>> THEN f
        ELSE Glue(Glue(head, Shift(data, off)), Rest(f, off + BLen(data)))

(***************************************************************************)
(* struct.pack / struct.unpack, little endian                              *)
(***************************************************************************)

\* struct.pack('<H', v)
PackH(v) == FromBytes(<<v % 256, (v \div 256) % 256>>)

\* struct.pack('<I', v)
PackI(v) ==
    FromBytes(<<v % 256, (v \div 256) % 256,
                (v \div 65536) % 256, (v \div 16777216) % 256>>)

\* Values of 2^31 and above exceed every offset of a modelled file; they are
\* all represented by the largest integer the checker holds.
Huge == 2147483646 + 1

\* struct.unpack('<H', data)[0], data of 2 bytes
UnpackH(r) == LET b == ToBytes(r) IN b[1] + 256 * b[2]

\* struct.unpack('<I', data)[0], data of 4 bytes
UnpackI(r) ==
    LET b == ToBytes(r)
    IN  IF b[4] >= 128 THEN Huge
        ELSE b[1] + 256 * b[2] + 65536 * b[3] + 16777216 * b[4]

\* struct.pack('<I', 0xDEADBEEF)
DEADBEEF == FromBytes(<<239, 190, 173, 222>>)


(***************************************************************************)
(* Constants of generate_optimized_file                                    *)
(***************************************************************************)

TIFF_BYTE == 1
TIFF_ASCII == 2
TIFF_SHORT == 3
TIFF_LONG == 4
TIFF_DOUBLE == 12

TIFFTAG_STRIPOFFSETS == 273
TIFFTAG_STRIPBYTECOUNTS == 279
TIFFTAG_TILEOFFSETS == 324
TIFFTAG_TILEBYTECOUNTS == 325
TIFFTAG_GDAL_METADATA == 42112

\* a typesize dict that also knows type code 14
typesize_with_14 ==
    [t \in (1..14) \cup {16, 17, 18} |->
        CASE t \in {1, 2, 6, 7} -> 1
          [] t \in {3, 8} -> 2
          [] t \in {4, 9, 11, 13, 14} -> 4
          [] OTHER -> 8]

\* the typesize dict: type code -> bytes per value
typesize ==
    [t \in (1..13) \cup {16, 17, 18} |->
        CASE t \in {1, 2, 6, 7} -> 1
          [] t \in {3, 8} -> 2
          [] t \in {4, 9, 11, 13} -> 4
          [] OTHER -> 8]

StrileOffsetTags == {TIFFTAG_STRIPOFFSETS, TIFFTAG_TILEOFFSETS}
StrileTags == {TIFFTAG_STRIPOFFSETS, TIFFTAG_STRIPBYTECOUNTS,
               TIFFTAG_TILEOFFSETS, TIFFTAG_TILEBYTECOUNTS}

\* b'\x49\x49\x2A\x00'
Signature == FromBytes(<<73, 73, 42, 0>>)

\* b'\n-- Generated by ntv2_to_gtiff.py v1.0 --\n'
Banner ==
    FromBytes(<<10, 45, 45, 32, 71, 101, 110, 101, 114, 97, 116, 101, 100,
                32, 98, 121, 32, 110, 116, 118, 50, 95, 116, 111, 95, 103,
                116, 105, 102, 102, 46, 112, 121, 32, 118, 49, 46, 48, 32,
                45, 45, 10>>)

\* b'-- Metadata size: '
HintPrefix ==
    <<45, 45, 32, 77, 101, 116, 97, 100, 97, 116, 97, 32, 115, 105, 122,
      101, 58, 32>>

\* b' --\n'
HintSuffix == <<32, 45, 45, 10>>

\* b'-- Metadata size: XXXXXX --\n'
dummy_metadata_hint ==
    FromBytes(HintPrefix \o <<88, 88, 88, 88, 88, 88>> \o HintSuffix)

\* the hexadecimal digits of v, as ASCII bytes
RECURSIVE DigitsHex(_)
DigitsHex(v) ==
    LET d == v % 16
        c == IF d < 10 THEN 48 + d ELSE 87 + d
    IN  IF v < 16 THEN <<c>> ELSE DigitsHex(v \div 16) \o <<c>>

\* the decimal digits of v, as ASCII bytes
RECURSIVE Digits(_)
Digits(v) ==
    IF v < 10 THEN <<48 + v>>
    ELSE Digits(v \div 10) \o <<48 + (v % 10)>>

\* the least value that '%06d' renders with more than six digits
HintLimit == 1000000

\* a marker of the last six digits of v whatever v is
FormatHintLowSix(v) ==
    LET d == Digits(v % HintLimit)
        pad == [i \in 1..(6 - Len(d)) |-> 48]
    IN  FromBytes(HintPrefix \o pad \o d \o HintSuffix)

\* ('-- Metadata size: %06d --\n' % v).encode('ASCII'): at least six digits,
\* padded with zeros on the left, and more digits when v needs them
FormatHint(v) ==
    LET d == Digits(v)
        pad == [i \in 1..(6 - Len(d)) |-> 48]
    IN  FromBytes(HintPrefix \o pad \o d \o HintSuffix)

(***************************************************************************)
(* The baseline container (tmpfilename) that create_unoptimized_file       *)
(* leaves behind: a header, then for each grid its directory, the          *)
(* out-of-line payloads of its fields and its strips or tiles.             *)
(*                                                                         *)
(* A grid is [fields, lens]: lens are the byte lengths of its strips or    *)
(* tiles, and a field is [id, type, count, kind, data] with kind           *)
(*   "inline"     data is the 4-byte value word,                           *)
(*   "offline"    data is the payload, stored out of line,                 *)
(*   "offsets"    the strip/tile offset array,                             *)
(*   "bytecounts" the strip/tile bytecount array.                          *)
(***************************************************************************)

Inline(id, type, count, v) ==
    [id |-> id, type |-> type, count |-> count, kind |-> "inline",
     data |-> PackI(v)]

Offline(id, type, data) ==
    [id |-> id, type |-> type, count |-> BLen(data) \div typesize[type],
     kind |-> "offline", data |-> data]

StrileArray(id, type, kind, n) ==
    [id |-> id, type |-> type, count |-> n, kind |-> kind, data |-> <<>>]

\* the bytes a field keeps out of line
PayloadSize(f) ==
    CASE f.kind = "inline" -> 0
      [] f.kind = "offline" -> BLen(f.data)
      [] OTHER -> IF f.count * typesize[f.type] <= 4 THEN 0
                  ELSE f.count * typesize[f.type]

RECURSIVE SumSizes(_, _)
SumSizes(fields, n) ==
    IF n = 0 THEN 0 ELSE SumSizes(fields, n - 1) + PayloadSize(fields[n])

RECURSIVE SumTo(_, _)
SumTo(lens, n) == IF n = 0 THEN 0 ELSE SumTo(lens, n - 1) + lens[n]

\* the size of a directory record of n fields
RecordSize(n) == 2 + 12 * n + 4

\* the bytes one grid takes in the baseline container
GridSize(g) ==
    RecordSize(Len(g.fields)) + SumSizes(g.fields, Len(g.fields))
    + SumTo(g.lens, Len(g.lens))

\* the array of n values vals[1..n], each packed in the width of type
RECURSIVE PackArray(_, _, _)
PackArray(type, vals, n) ==
    IF n = 0 THEN <<>>
    ELSE BCat(PackArray(type, vals, n - 1),
              IF type = TIFF_SHORT THEN PackH(vals[n]) ELSE PackI(vals[n]))

\* the sample bytes of strip/tile i of grid k: every one its own byte value
StrileData(k, i, len) == Fill(16 * k + i, len)

\* grid k of the container, laid out at offset off, followed by directory next
GridBytes(g, k, off, next) ==
    LET nf == Len(g.fields)
        pay == off + RecordSize(nf)
        sd == pay + SumSizes(g.fields, nf)
        sin == [i \in 1..Len(g.lens) |-> sd + SumTo(g.lens, i - 1)]
        word(j) ==
            LET f == g.fields[j]
            IN  CASE f.kind = "inline" -> f.data
                  [] f.kind \in {"offsets", "bytecounts"}
                     /\ PayloadSize(f) = 0 ->
                        BCat(PackArray(f.type,
                               IF f.kind = "offsets" THEN sin ELSE g.lens,
                               f.count),
                             Fill(0, 4 - f.count * typesize[f.type]))
                  [] OTHER -> PackI(pay + SumSizes(g.fields, j - 1))
        entry(j) ==
            LET f == g.fields[j]
            IN  BCat(BCat(PackH(f.id), PackH(f.type)),
                     BCat(PackI(f.count), word(j)))
        payload(j) ==
            LET f == g.fields[j]
            IN  CASE f.kind = "offline" -> f.data
                  [] f.kind = "offsets" /\ PayloadSize(f) > 0 ->
                        PackArray(f.type, sin, f.count)
                  [] f.kind = "bytecounts" /\ PayloadSize(f) > 0 ->
                        PackArray(f.type, g.lens, f.count)
                  [] OTHER -> <<>>
        cat[j \in 0..nf, part \in {"entry", "payload"}] ==
            IF j = 0 THEN <<>>
            ELSE BCat(cat[j - 1, part],
                      IF part = "entry" THEN entry(j) ELSE payload(j))
        data[i \in 0..Len(g.lens)] ==
            IF i = 0 THEN <<>>
            ELSE BCat(data[i - 1], StrileData(k, i, g.lens[i]))
    IN  BCat(BCat(BCat(PackH(nf), cat[nf, "entry"]), PackI(next)),
             BCat(cat[nf, "payload"], data[Len(g.lens)]))

RECURSIVE GridsFrom(_, _, _)
GridsFrom(grids, k, off) ==
    IF k > Len(grids) THEN <<>>
    ELSE LET end == off + GridSize(grids[k])
         IN  BCat(GridBytes(grids[k], k, off,
                            IF k < Len(grids) THEN end ELSE 0),
                  GridsFrom(grids, k + 1, end))

\* the container: signature, offset of the first directory, the grids
Container(sig, grids) ==
    BCat(BCat(sig, PackI(IF grids = <<>> THEN 0 ELSE 8)),
         GridsFrom(grids, 1, 8))

(***************************************************************************)
(* State of one run of generate_optimized_file(tmpfilename, destfilename,  *)
(* args)                                                                   *)
(***************************************************************************)

VARIABLES
    in_file,                    \* the bytes of tmpfilename (in_f)
    nbands,                     \* 2 if args.do_not_write_error_samples else 4
    out_file,                   \* the bytes of destfilename (out_f)
    out_pos,                    \* out_f.tell()
    next_ifd_offset,
    next_ifd_offset_out_offset,
    tagdict,                    \* the out-of-line tags of the directory read
    ifds,
    offlinedata_to_offset,      \* payload bytes -> output offset
    idx,                        \* position of the running loop over ifds
    pc,                         \* position in the function
    err,                        \* the exception that ended the run, or ""
    open_files                  \* the file objects opened and not closed

optvars ==
    <<in_file, nbands, out_file, out_pos, next_ifd_offset,
      next_ifd_offset_out_offset, tagdict, ifds, offlinedata_to_offset,
      idx, pc, err, open_files>>

\* State of one run of create_unoptimized_file(sourcefilename, tmpfilename,
\* args)
VARIABLES
    num_subdatsets,             \* len(subdatsets): the main grid and sub-grids
    args,                       \* [nbands, uint16_encoding, epsg, description]
    compact_md,
    idx_ifd,                    \* the grid the loop of line 150 is at
    tmp_dirs,                   \* the directories of tmpfilename, in order
    cpc,                        \* position in the function
    cerr                        \* the exception that ended it, or ""

crevars ==
    <<num_subdatsets, args, compact_md, idx_ifd, tmp_dirs, cpc, cerr>>

\* A second run of generate_optimized_file, on files of its own, while it is
\* not the one taking a step: its local variables and its two files
VARIABLES other

\* State of one run of the script convert_all.py
VARIABLES
    overwrite,                  \* args.overwrite
    only,                       \* args.only, "" when not given
    rows,                       \* the rows of filelist.csv after the header
    row_idx,                    \* the row the loop of line 72 is at
    files,                      \* path -> content, the files that exist
    steps,                      \* the conversion steps run: <<row, step>>
    mpc,                        \* position in the script
    merr                        \* the exception that ended it, or ""

cvtvars == <<overwrite, only, rows, row_idx, files, steps, mpc, merr>>

vars == <<optvars, crevars, other, cvtvars>>

\* what a step of generate_optimized_file leaves alone
outside_optimize == <<crevars, other, cvtvars>>

\* what a step of create_unoptimized_file leaves alone
outside_create == <<optvars, other, cvtvars>>

\* essential_metadata_size_hint_offset_to_patch = out_f.tell(), after the
\* signature, the first-directory pointer and the banner
essential_metadata_size_hint_offset_to_patch == 8 + BLen(Banner)

(***************************************************************************)
(* tagdict: a dict tag id -> OfflineTag, in insertion order                *)
(***************************************************************************)

OfflineTag(tagid, tagtype, nvalues, data, fileoffset_in_out_ifd) ==
    [id |-> tagid, tagtype |-> tagtype, nvalues |-> nvalues, data |-> data,
     fileoffset_in_out_ifd |-> fileoffset_in_out_ifd]

\* id in tagdict
HasTag(td, id) == \E j \in 1..Len(td) : td[j].id = id

\* tagdict[id]
GetTag(td, id) == td[CHOOSE j \in 1..Len(td) : td[j].id = id]

\* tagdict[tag.id] = tag: a new key goes last, a known key keeps its place
SetTag(td, tag) ==
    IF HasTag(td, tag.id)
    THEN [j \in 1..Len(td) |-> IF td[j].id = tag.id THEN tag ELSE td[j]]
    ELSE Append(td, tag)

\* IFD(tagdict); the attributes the later passes set start unset
IFD(td) ==
    [tagdict |-> td, offset_out_offsets |-> -1, num_striles |-> -1,
     strile_offset_in |-> <<>>, strile_length_in |-> <<>>,
     strile_offset_out |-> <<>>, num_striles_per_band |-> -1]

\* the cache switched off
no_reuse_offlinedata == FALSE

\* reuse_offlinedata = True
reuse_offlinedata == TRUE

\* offlinedata_to_offset[data] = off
CachePut(cache, data, off) == (data :> off) @@ cache

\* out_f.write(data) at the cursor of w = [out, pos]
Put(w, data) ==
    [w EXCEPT !.out = WriteAt(w.out, w.pos, data),
              !.pos = w.pos + BLen(data)]

\* cur_pos = out_f.tell(); out_f.seek(at); out_f.write(pack('<I', cur_pos));
\* out_f.seek(cur_pos)
PatchPointer(w, at) == [w EXCEPT !.out = WriteAt(w.out, at, PackI(w.pos))]

(***************************************************************************)
(* Lines 379-393: open the files, copy the signature, write the banner.    *)
(* in_f is opened at line 379 and out_f at line 384, after the signature   *)
(* and the first-directory pointer have been read.                         *)
(***************************************************************************)

OpenFiles ==
    /\ pc = "start"
    /\ \E signature \in {ReadAt(in_file, 0, 4)},
          word \in {ReadAt(in_file, 4, 4)} :
          IF signature # Signature
          THEN /\ pc' = "aborted"
               /\ err' = "AssertionError"
               /\ open_files' = {"in_f"}
               /\ UNCHANGED <<out_file, out_pos, next_ifd_offset>>
          ELSE IF BLen(word) < 4
          THEN /\ pc' = "aborted"
               /\ err' = "struct.error"
               /\ open_files' = {"in_f"}
               /\ UNCHANGED <<out_file, out_pos, next_ifd_offset>>
          ELSE /\ next_ifd_offset' = UnpackI(word)
               /\ open_files' = {"in_f", "out_f"}
               /\ out_file' = BCat(BCat(signature, DEADBEEF),
                                   BCat(Banner, dummy_metadata_hint))
               /\ out_pos' = essential_metadata_size_hint_offset_to_patch
                             + BLen(dummy_metadata_hint)
               /\ pc' = "ifd_loop"
               /\ err' = err
    /\ next_ifd_offset_out_offset' = 4
    /\ UNCHANGED <<in_file, nbands, tagdict, ifds, offlinedata_to_offset, idx>>
    /\ UNCHANGED outside_optimize

(***************************************************************************)
(* Lines 401-449: one directory: align, link it to its predecessor, copy   *)
(* its entries                                                             *)
(***************************************************************************)

\* the value word of the input entry, the input offset, copied as it is
InputWord(word) == word

\* Line 444: what stands in the entry of a pending tag; word, the value word
\* of the input entry, is not used
PendingWord(word) == DEADBEEF

\* Lines 419-444, entries i.. of the directory at base; w = [out, pos, td, err]
RECURSIVE WriteEntries(_, _, _, _, _, _)
WriteEntries(inf, base, numtags, i, cache, w) ==
    IF i >= numtags THEN w
    ELSE
    LET rec == ReadAt(inf, base + 2 + 12 * i, 12)
    IN  IF BLen(rec) < 12 THEN [w EXCEPT !.err = "struct.error"]
        ELSE
        LET tagid == UnpackH(BTake(rec, 2))
            tagtype == UnpackH(BTake(BDrop(rec, 2), 2))
            tagnvalues == UnpackI(BTake(BDrop(rec, 4), 4))
            word == BDrop(rec, 8)
        IN  IF tagtype \notin DOMAIN typesize
            THEN [w EXCEPT !.err = "KeyError"]
            ELSE
            LET tagvalsize == typesize[tagtype] * tagnvalues
                w1 == Put(Put(Put(w, PackH(tagid)), PackH(tagtype)),
                          PackI(tagnvalues))
                tagdata == ReadAt(inf, UnpackI(word), tagvalsize)
                w2 == IF tagvalsize <= 4 THEN Put(w1, word)
                      ELSE IF reuse_offlinedata /\ tagdata \in DOMAIN cache
                      THEN Put(w1, PackI(cache[tagdata]))
                      ELSE Put([w1 EXCEPT !.td =
                                   SetTag(w1.td,
                                          OfflineTag(tagid, tagtype, tagnvalues,
                                                     tagdata, w1.pos))],
                               PendingWord(word))
            IN  WriteEntries(inf, base, numtags, i + 1, cache, w2)

\* the link left where it was: next_ifd_offset_out_offset is not updated
LinkOffsetStale(w) == w.link

\* Line 447: next_ifd_offset_out_offset = out_f.tell()
LinkOffset(w) == w.pos

\* no byte before a directory, wherever the cursor is
PadBytesNone(cur_pos) == <<>>

\* Lines 405-408: the byte written before a directory when cur_pos is odd
PadBytes(cur_pos) == IF cur_pos % 2 = 1 THEN Fill(0, 1) ELSE <<>>

\* Lines 403-449; the result is [out, pos, td, err, next, link]: next is the
\* new next_ifd_offset and link the new next_ifd_offset_out_offset
CopyIFD(inf, base, link, cache, out, pos) ==
    LET w0 == [out |-> out, pos |-> pos, td |-> <<>>, err |-> "",
               next |-> base, link |-> link]
        w1 == Put(w0, PadBytes(pos))
        w2 == [w1 EXCEPT !.out = WriteAt(w1.out, link, PackI(w1.pos))]
        head == ReadAt(inf, base, 2)
        numtags == UnpackH(head)
        w3 == IF BLen(head) < 2 THEN [w2 EXCEPT !.err = "struct.error"]
              ELSE WriteEntries(inf, base, numtags, 0, cache,
                                Put(w2, PackH(numtags)))
        word == ReadAt(inf, base + 2 + 12 * numtags, 4)
    IN  IF w3.err # "" THEN w3
        ELSE IF BLen(word) < 4 THEN [w3 EXCEPT !.err = "struct.error"]
        ELSE Put([w3 EXCEPT !.next = UnpackI(word), !.link = LinkOffset(w3)],
                 DEADBEEF)

\* the most directories a run is followed through: more than any container
\* without a cycle has
MaxVisits == 5

\* One turn of the loop "while next_ifd_offset != 0" of line 401, which has
\* no other exit than an exception
ReadIFD ==
    /\ pc = "ifd_loop"
    /\ next_ifd_offset # 0
    /\ Len(ifds) < MaxVisits
    /\ \E w \in {CopyIFD(in_file, next_ifd_offset, next_ifd_offset_out_offset,
                         offlinedata_to_offset, out_file, out_pos)} :
          /\ out_file' = w.out
          /\ out_pos' = w.pos
          /\ tagdict' = w.td
          /\ err' = w.err
          /\ next_ifd_offset' = w.next
          /\ next_ifd_offset_out_offset' = w.link
          /\ pc' = IF w.err # "" THEN "aborted" ELSE "offline_tags"
    /\ UNCHANGED <<in_file, nbands, ifds, offlinedata_to_offset, idx>>
    /\ UNCHANGED open_files
    /\ UNCHANGED outside_optimize

(***************************************************************************)
(* Lines 451-469: write the out-of-line data of the directory just read,   *)
(* except the strip/tile arrays and the GDAL metadata of the directories   *)
(* after the first, and patch the entries                                  *)
(***************************************************************************)

\* the data of one tag, with the cursor after the write put in the cache
WriteTagCachesEnd(tag, w) ==
    LET w1 == Put(PatchPointer(w, tag.fileoffset_in_out_ifd), tag.data)
    IN  [w1 EXCEPT !.cache = CachePut(w.cache, tag.data, w1.pos)]

\* Lines 461-467: the data of one tag; w = [out, pos, cache]
WriteTag(tag, w) ==
    LET w1 == Put(PatchPointer(w, tag.fileoffset_in_out_ifd), tag.data)
    IN  IF reuse_offlinedata
        THEN [w1 EXCEPT !.cache = CachePut(w.cache, tag.data, w.pos)]
        ELSE w1

\* the data of the tags of the first directory only
RECURSIVE WriteTagDataFirstOnly(_, _, _, _)
WriteTagDataFirstOnly(td, j, first, w) ==
    IF j > Len(td) \/ ~first THEN w
    ELSE IF td[j].id \in StrileTags
    THEN WriteTagDataFirstOnly(td, j + 1, first, w)
    ELSE WriteTagDataFirstOnly(td, j + 1, first, WriteTag(td[j], w))

\* Lines 454-467: tags j.. of td; w = [out, pos, cache]
RECURSIVE WriteTagData(_, _, _, _)
WriteTagData(td, j, first, w) ==
    IF j > Len(td) THEN w
    ELSE IF td[j].id \in StrileTags
            \/ (td[j].id = TIFFTAG_GDAL_METADATA /\ ~first)
    THEN WriteTagData(td, j + 1, first, w)
    ELSE WriteTagData(td, j + 1, first, WriteTag(td[j], w))

WriteOfflineTags ==
    /\ pc = "offline_tags"
    /\ \E w \in {WriteTagData(tagdict, 1, Len(ifds) = 0,
                              [out |-> out_file, pos |-> out_pos,
                               cache |-> offlinedata_to_offset])} :
          /\ out_file' = w.out
          /\ out_pos' = w.pos
          /\ offlinedata_to_offset' = w.cache
    /\ ifds' = Append(ifds, IFD(tagdict))
    /\ pc' = "ifd_loop"
    /\ UNCHANGED <<in_file, nbands, next_ifd_offset,
                   next_ifd_offset_out_offset, tagdict, idx, err>>
    /\ UNCHANGED open_files
    /\ UNCHANGED outside_optimize

(***************************************************************************)
(* Lines 471-476: patch the metadata size hint                             *)
(***************************************************************************)

PatchMetadataHint ==
    /\ pc = "ifd_loop"
    /\ next_ifd_offset = 0
    /\ \E metadata_hint \in {FormatHint(out_pos)} :
          IF BLen(metadata_hint) # BLen(dummy_metadata_hint)
          THEN /\ pc' = "aborted"
               /\ err' = "AssertionError"
               /\ UNCHANGED <<out_file, out_pos, idx>>
          ELSE /\ out_file' =
                     WriteAt(out_file,
                             essential_metadata_size_hint_offset_to_patch,
                             metadata_hint)
               /\ out_pos' = BLen(out_file')
               /\ pc' = "strile_arrays"
               /\ idx' = 1
               /\ err' = err
    /\ UNCHANGED <<in_file, nbands, next_ifd_offset,
                   next_ifd_offset_out_offset, tagdict, ifds,
                   offlinedata_to_offset>>
    /\ UNCHANGED open_files
    /\ UNCHANGED outside_optimize

(***************************************************************************)
(* Lines 478-496: the strip/tile bytecount arrays and room for the offset  *)
(* arrays, one directory per step                                          *)
(***************************************************************************)

\* room of zeros for the bytecount array too, as for the offset array
WriteStrileTagDummy(tag, w) ==
    LET w1 == PatchPointer(w, tag.fileoffset_in_out_ifd)
    IN  Put(IF tag.id \in StrileOffsetTags THEN [w1 EXCEPT !.off = w1.pos]
            ELSE w1,
            Fill(0, BLen(tag.data)))

\* Lines 487-496: one strip/tile array; w = [out, pos, off], where off
\* becomes ifd.offset_out_offsets
WriteStrileTag(tag, w) ==
    LET w1 == PatchPointer(w, tag.fileoffset_in_out_ifd)
    IN  IF tag.id \in StrileOffsetTags
        THEN Put([w1 EXCEPT !.off = w1.pos], Fill(0, BLen(tag.data)))
        ELSE Put(w1, tag.data)

\* Lines 482-496: tags j.. of td
RECURSIVE WriteStrileTags(_, _, _)
WriteStrileTags(td, j, w) ==
    IF j > Len(td) THEN w
    ELSE IF td[j].id \notin StrileTags THEN WriteStrileTags(td, j + 1, w)
    ELSE WriteStrileTags(td, j + 1, WriteStrileTag(td[j], w))

WriteStrileArrays ==
    /\ pc = "strile_arrays"
    /\ IF idx <= Len(ifds)
       THEN \E w \in {WriteStrileTags(ifds[idx].tagdict, 1,
                                      [out |-> out_file, pos |-> out_pos,
                                       off |-> ifds[idx].offset_out_offsets])} :
                /\ out_file' = w.out
                /\ out_pos' = w.pos
                /\ ifds' = [ifds EXCEPT ![idx].offset_out_offsets = w.off]
                /\ idx' = idx + 1
                /\ pc' = pc
       ELSE /\ pc' = "gdal_metadata"
            /\ idx' = 2
            /\ UNCHANGED <<out_file, out_pos, ifds>>
    /\ UNCHANGED <<in_file, nbands, next_ifd_offset,
                   next_ifd_offset_out_offset, tagdict,
                   offlinedata_to_offset, err>>
    /\ UNCHANGED open_files
    /\ UNCHANGED outside_optimize

(***************************************************************************)
(* Lines 498-508: the GDAL metadata of the directories after the first     *)
(***************************************************************************)

\* the GDAL metadata written, the entry not patched
WriteMetadataTagUnlinked(td, w) ==
    IF HasTag(td, TIFFTAG_GDAL_METADATA)
    THEN Put(w, GetTag(td, TIFFTAG_GDAL_METADATA).data)
    ELSE w

\* Lines 502-508 for one directory; w = [out, pos]
WriteMetadataTag(td, w) ==
    IF HasTag(td, TIFFTAG_GDAL_METADATA)
    THEN LET tag == GetTag(td, TIFFTAG_GDAL_METADATA)
         IN  Put(PatchPointer(w, tag.fileoffset_in_out_ifd), tag.data)
    ELSE w

WriteGDALMetadata ==
    /\ pc = "gdal_metadata"
    /\ IF idx <= Len(ifds)
       THEN \E w \in {WriteMetadataTag(ifds[idx].tagdict,
                                       [out |-> out_file, pos |-> out_pos])} :
                /\ out_file' = w.out
                /\ out_pos' = w.pos
                /\ idx' = idx + 1
                /\ pc' = pc
       ELSE /\ pc' = "primary"
            /\ idx' = 1
            /\ UNCHANGED <<out_file, out_pos>>
    /\ UNCHANGED <<in_file, nbands, next_ifd_offset,
                   next_ifd_offset_out_offset, tagdict, ifds,
                   offlinedata_to_offset, err>>
    /\ UNCHANGED open_files
    /\ UNCHANGED outside_optimize

(***************************************************************************)
(* Lines 510-552: the strips/tiles, the offsets first and then the errors  *)
(***************************************************************************)

\* OfflineTag.unpack_array: the values, or the exception raised
unpack_array(tag) ==
    LET width == IF tag.tagtype = TIFF_SHORT THEN 2 ELSE 4
    IN  IF tag.tagtype \notin {TIFF_SHORT, TIFF_LONG}
        THEN [err |-> "AssertionError", vals |-> <<>>]
        ELSE IF BLen(tag.data) # width * tag.nvalues
        THEN [err |-> "struct.error", vals |-> <<>>]
        ELSE [err |-> "",
              vals |-> [i \in 1..tag.nvalues |->
                          IF width = 2
                          THEN UnpackH(ReadAt(tag.data, 2 * (i - 1), 2))
                          ELSE UnpackI(ReadAt(tag.data, 4 * (i - 1), 4))]]

\* the strip/tile attributes without the check of line 530 that the number
\* of strips/tiles is a multiple of the number of bands
StrileInfoAnyCount(ifd, nb) ==
    LET td == ifd.tagdict
        strips == HasTag(td, TIFFTAG_STRIPOFFSETS)
        otag == IF strips THEN TIFFTAG_STRIPOFFSETS ELSE TIFFTAG_TILEOFFSETS
        btag == IF strips THEN TIFFTAG_STRIPBYTECOUNTS
                ELSE TIFFTAG_TILEBYTECOUNTS
    IN  IF ~HasTag(td, otag) \/ ~HasTag(td, btag)
        THEN [err |-> "KeyError", ifd |-> ifd]
        ELSE
        LET num == GetTag(td, otag).nvalues
            offs == unpack_array(GetTag(td, otag))
            lens == unpack_array(GetTag(td, btag))
        IN  IF num # GetTag(td, btag).nvalues \/ offs.err # "" \/ lens.err # ""
            THEN [err |-> "AssertionError", ifd |-> ifd]
            ELSE [err |-> "",
                  ifd |-> [ifd EXCEPT !.num_striles = num,
                                      !.strile_offset_in = offs.vals,
                                      !.strile_length_in = lens.vals,
                                      !.strile_offset_out =
                                          [i \in 1..num |-> 0],
                                      !.num_striles_per_band = num \div nb]]

\* Lines 516-532: the strip/tile attributes of ifd, or the exception raised
StrileInfo(ifd, nb) ==
    LET td == ifd.tagdict
        strips == HasTag(td, TIFFTAG_STRIPOFFSETS)
        otag == IF strips THEN TIFFTAG_STRIPOFFSETS ELSE TIFFTAG_TILEOFFSETS
        btag == IF strips THEN TIFFTAG_STRIPBYTECOUNTS
                ELSE TIFFTAG_TILEBYTECOUNTS
    IN  IF ~HasTag(td, otag) THEN [err |-> "KeyError", ifd |-> ifd]
        ELSE
        LET num == GetTag(td, otag).nvalues
            ifd1 == [ifd EXCEPT !.num_striles = num]
            offs == unpack_array(GetTag(td, otag))
            lens == unpack_array(GetTag(td, btag))
            ifd2 == [ifd1 EXCEPT !.strile_offset_in = offs.vals]
            ifd3 == [ifd2 EXCEPT !.strile_length_in = lens.vals]
        IN  IF ~HasTag(td, btag) THEN [err |-> "KeyError", ifd |-> ifd1]
            ELSE IF num # GetTag(td, btag).nvalues
            THEN [err |-> "AssertionError", ifd |-> ifd1]
            ELSE IF offs.err # "" THEN [err |-> offs.err, ifd |-> ifd1]
            ELSE IF lens.err # "" THEN [err |-> lens.err, ifd |-> ifd2]
            ELSE IF num % nb # 0
            THEN [err |-> "AssertionError", ifd |-> ifd3]
            ELSE [err |-> "",
                  ifd |-> [ifd3 EXCEPT !.strile_offset_out =
                                           [i \in 1..num |-> 0],
                                       !.num_striles_per_band = num \div nb]]

\* the index with the two bands of a group exchanged
StrileIndexOtherBand(per_band, iband, i) ==
    per_band * (iband + 1 - 2 * (iband % 2)) + i + 1

\* ifd.num_striles_per_band * iband + i, counted from 1
StrileIndex(per_band, iband, i) == per_band * iband + i + 1

\* a copy that records the cursor after out_f.write(data), not before it
CopyStrileOffsetAfterData(inf, ifd, idx_strile, w) ==
    LET data == ReadAt(inf, ifd.strile_offset_in[idx_strile],
                       ifd.strile_length_in[idx_strile])
        w1 == Put(w, data)
    IN  [w1 EXCEPT !.offs[idx_strile] = w1.pos]

\* Lines 536-539 and 549-552: copy strip/tile idx_strile and record where it
\* went; w = [out, pos, offs]
CopyStrile(inf, ifd, idx_strile, w) ==
    LET data == ReadAt(inf, ifd.strile_offset_in[idx_strile],
                       ifd.strile_length_in[idx_strile])
    IN  Put([w EXCEPT !.offs[idx_strile] = w.pos], data)

\* the bands counted from the last one: band b is taken for band nb - 1 - b
RECURSIVE CopyStrilesBandsReversed(_, _, _, _, _, _)
CopyStrilesBandsReversed(inf, ifd, bands, i, k, w) ==
    IF i >= ifd.num_striles_per_band THEN w
    ELSE LET nb == ifd.num_striles \div ifd.num_striles_per_band
             idx_strile ==
                 ifd.num_striles_per_band * (nb - 1 - bands[k + 1]) + i + 1
             data == ReadAt(inf, ifd.strile_offset_in[idx_strile],
                            ifd.strile_length_in[idx_strile])
             w1 == Put([w EXCEPT !.offs[idx_strile] = w.pos], data)
         IN  IF k = 0 THEN CopyStrilesBandsReversed(inf, ifd, bands, i, 1, w1)
             ELSE CopyStrilesBandsReversed(inf, ifd, bands, i + 1, 0, w1)

\* Lines 533-539 and 546-552: strips/tiles i.. of the bands <<b1, b2>>, step
\* k = 0 for band b1 and 1 for band b2
RECURSIVE CopyStriles(_, _, _, _, _, _)
CopyStriles(inf, ifd, bands, i, k, w) ==
    IF i >= ifd.num_striles_per_band THEN w
    ELSE LET idx_strile ==
                 StrileIndex(ifd.num_striles_per_band, bands[k + 1], i)
             w1 == CopyStrile(inf, ifd, idx_strile, w)
         IN  IF k = 0 THEN CopyStriles(inf, ifd, bands, i, 1, w1)
             ELSE CopyStriles(inf, ifd, bands, i + 1, 0, w1)

\* Lines 513-539 for one directory: [err, ifd, out, pos]
CopyPrimary(inf, ifd, nb, out, pos) ==
    LET info == StrileInfo(ifd, nb)
        w == CopyStriles(inf, info.ifd, <<0, 1>>, 0, 0,
                         [out |-> out, pos |-> pos,
                          offs |-> info.ifd.strile_offset_out])
    IN  IF info.err # ""
        THEN [err |-> info.err, ifd |-> info.ifd, out |-> out, pos |-> pos]
        ELSE [err |-> "",
              ifd |-> [info.ifd EXCEPT !.strile_offset_out = w.offs],
              out |-> w.out, pos |-> w.pos]

WritePrimary ==
    /\ pc = "primary"
    /\ IF idx <= Len(ifds)
       THEN \E r \in {CopyPrimary(in_file, ifds[idx], nbands,
                                  out_file, out_pos)} :
                /\ out_file' = r.out
                /\ out_pos' = r.pos
                /\ ifds' = [ifds EXCEPT ![idx] = r.ifd]
                /\ err' = r.err
                /\ IF r.err # ""
                   THEN pc' = "aborted" /\ idx' = idx
                   ELSE pc' = pc /\ idx' = idx + 1
       ELSE /\ pc' = IF nbands = 4 THEN "accuracy" ELSE "offset_arrays"
            /\ idx' = 1
            /\ UNCHANGED <<out_file, out_pos, ifds, err>>
    /\ UNCHANGED <<in_file, nbands, next_ifd_offset,
                   next_ifd_offset_out_offset, tagdict,
                   offlinedata_to_offset>>
    /\ UNCHANGED open_files
    /\ UNCHANGED outside_optimize

WriteAccuracy ==
    /\ pc = "accuracy"
    /\ IF idx <= Len(ifds)
       THEN \E w \in {CopyStriles(in_file, ifds[idx], <<2, 3>>, 0, 0,
                                  [out |-> out_file, pos |-> out_pos,
                                   offs |-> ifds[idx].strile_offset_out])} :
                /\ out_file' = w.out
                /\ out_pos' = w.pos
                /\ ifds' = [ifds EXCEPT ![idx].strile_offset_out = w.offs]
                /\ idx' = idx + 1
                /\ pc' = pc
       ELSE /\ pc' = "offset_arrays"
            /\ idx' = 1
            /\ UNCHANGED <<out_file, out_pos, ifds>>
    /\ UNCHANGED <<in_file, nbands, next_ifd_offset,
                   next_ifd_offset_out_offset, tagdict,
                   offlinedata_to_offset, err>>
    /\ UNCHANGED open_files
    /\ UNCHANGED outside_optimize

(***************************************************************************)
(* Lines 554-570: the strip/tile offset arrays                             *)
(***************************************************************************)

\* no check of the value
FitsAlways(v) == TRUE

\* the value v of an offset array of SHORT fits: assert v < 65536
FitsShort(v) == v < 65536

\* values i.. of offs in the width of tagtype; w = [out, pos, err]
RECURSIVE WriteOffsets(_, _, _, _)
WriteOffsets(tagtype, offs, i, w) ==
    IF i > Len(offs) THEN w
    ELSE IF tagtype = TIFF_SHORT
    THEN IF ~FitsShort(offs[i]) THEN [w EXCEPT !.err = "AssertionError"]
         ELSE WriteOffsets(tagtype, offs, i + 1, Put(w, PackH(offs[i])))
    ELSE WriteOffsets(tagtype, offs, i + 1, Put(w, PackI(offs[i])))

\* Lines 556-570 for one directory: [out, pos, err]
WriteOffsetArray(ifd, out) ==
    LET td == ifd.tagdict
        tagtype == IF HasTag(td, TIFFTAG_STRIPOFFSETS)
                   THEN GetTag(td, TIFFTAG_STRIPOFFSETS).tagtype
                   ELSE GetTag(td, TIFFTAG_TILEOFFSETS).tagtype
    IN  WriteOffsets(tagtype, ifd.strile_offset_out, 1,
                     [out |-> out, pos |-> ifd.offset_out_offsets,
                      err |-> ""])

WriteOffsetArrays ==
    /\ pc = "offset_arrays"
    /\ IF idx <= Len(ifds)
       THEN \E w \in {WriteOffsetArray(ifds[idx], out_file)} :
                /\ out_file' = w.out
                /\ out_pos' = w.pos
                /\ err' = w.err
                /\ IF w.err # ""
                   THEN pc' = "aborted" /\ idx' = idx
                   ELSE pc' = pc /\ idx' = idx + 1
       ELSE /\ pc' = "patch_last"
            /\ UNCHANGED <<out_file, out_pos, idx, err>>
    /\ UNCHANGED <<in_file, nbands, next_ifd_offset,
                   next_ifd_offset_out_offset, tagdict, ifds,
                   offlinedata_to_offset>>
    /\ UNCHANGED open_files
    /\ UNCHANGED outside_optimize

(***************************************************************************)
(* Lines 572-577: end the directory chain and close the files; no other    *)
(* line closes them                                                        *)
(***************************************************************************)

\* the run ended without the write of lines 573-574
PatchLastIFDSkipped ==
    /\ pc = "patch_last"
    /\ open_files' = {}
    /\ pc' = "done"
    /\ UNCHANGED <<in_file, nbands, out_file, out_pos, next_ifd_offset,
                   next_ifd_offset_out_offset, tagdict, ifds,
                   offlinedata_to_offset, idx, err>>
    /\ UNCHANGED outside_optimize

PatchLastIFD ==
    /\ pc = "patch_last"
    /\ out_file' = WriteAt(out_file, next_ifd_offset_out_offset, PackI(0))
    /\ out_pos' = next_ifd_offset_out_offset + 4
    /\ open_files' = {}
    /\ pc' = "done"
    /\ UNCHANGED <<in_file, nbands, next_ifd_offset,
                   next_ifd_offset_out_offset, tagdict, ifds,
                   offlinedata_to_offset, idx, err>>
    /\ UNCHANGED outside_optimize

(***************************************************************************)
(* Lines 379-577 as one function of the input and the band count: what a   *)
(* run that no other run is interleaved with leaves in destfilename, and   *)
(* the exception that ended it                                             *)
(***************************************************************************)

\* Lines 401-469, from the state s = [out, pos, next, link, ifds, cache, err]
RECURSIVE AloneDirectories(_, _)
AloneDirectories(inf, s) ==
    IF s.next = 0 \/ s.err # "" \/ Len(s.ifds) >= MaxVisits THEN s
    ELSE LET w == CopyIFD(inf, s.next, s.link, s.cache, s.out, s.pos)
             t == WriteTagData(w.td, 1, Len(s.ifds) = 0,
                               [out |-> w.out, pos |-> w.pos,
                                cache |-> s.cache])
         IN  IF w.err # ""
             THEN [s EXCEPT !.out = w.out, !.pos = w.pos, !.err = w.err]
             ELSE AloneDirectories(inf,
                      [out |-> t.out, pos |-> t.pos, next |-> w.next,
                       link |-> w.link, ifds |-> Append(s.ifds, IFD(w.td)),
                       cache |-> t.cache, err |-> ""])

\* Lines 478-496, directories i.. of s = [out, pos, ifds, err]
RECURSIVE AloneStrileArrays(_, _)
AloneStrileArrays(s, i) ==
    IF i > Len(s.ifds) THEN s
    ELSE LET w == WriteStrileTags(s.ifds[i].tagdict, 1,
                                  [out |-> s.out, pos |-> s.pos,
                                   off |-> s.ifds[i].offset_out_offsets])
         IN  AloneStrileArrays(
                 [s EXCEPT !.out = w.out, !.pos = w.pos,
                           !.ifds[i].offset_out_offsets = w.off], i + 1)

\* Lines 498-508, directories i..
RECURSIVE AloneGDALMetadata(_, _)
AloneGDALMetadata(s, i) ==
    IF i > Len(s.ifds) THEN s
    ELSE LET w == WriteMetadataTag(s.ifds[i].tagdict,
                                   [out |-> s.out, pos |-> s.pos])
         IN  AloneGDALMetadata([s EXCEPT !.out = w.out, !.pos = w.pos], i + 1)

\* Lines 513-539, directories i..
RECURSIVE AlonePrimary(_, _, _, _)
AlonePrimary(inf, nb, s, i) ==
    IF i > Len(s.ifds) THEN s
    ELSE LET r == CopyPrimary(inf, s.ifds[i], nb, s.out, s.pos)
             s1 == [s EXCEPT !.out = r.out, !.pos = r.pos, !.ifds[i] = r.ifd,
                             !.err = r.err]
         IN  IF r.err # "" THEN s1 ELSE AlonePrimary(inf, nb, s1, i + 1)

\* Lines 541-552, directories i..
RECURSIVE AloneAccuracy(_, _, _)
AloneAccuracy(inf, s, i) ==
    IF i > Len(s.ifds) THEN s
    ELSE LET w == CopyStriles(inf, s.ifds[i], <<2, 3>>, 0, 0,
                              [out |-> s.out, pos |-> s.pos,
                               offs |-> s.ifds[i].strile_offset_out])
         IN  AloneAccuracy(inf,
                 [s EXCEPT !.out = w.out, !.pos = w.pos,
                           !.ifds[i].strile_offset_out = w.offs], i + 1)

\* Lines 554-570, directories i..
RECURSIVE AloneOffsetArrays(_, _)
AloneOffsetArrays(s, i) ==
    IF i > Len(s.ifds) THEN s
    ELSE LET w == WriteOffsetArray(s.ifds[i], s.out)
             s1 == [s EXCEPT !.out = w.out, !.pos = w.pos, !.err = w.err]
         IN  IF w.err # "" THEN s1 ELSE AloneOffsetArrays(s1, i + 1)

\* [out, err] of the run on the input inf with nb bands
Alone(inf, nb) ==
    LET signature == ReadAt(inf, 0, 4)
        word == ReadAt(inf, 4, 4)
        s0 == [out |-> BCat(BCat(signature, DEADBEEF),
                            BCat(Banner, dummy_metadata_hint)),
               pos |-> essential_metadata_size_hint_offset_to_patch
                       + BLen(dummy_metadata_hint),
               next |-> UnpackI(word), link |-> 4, ifds |-> <<>>,
               cache |-> <<>>, err |-> ""]
        s1 == AloneDirectories(inf, s0)
        metadata_hint == FormatHint(s1.pos)
        s2 == [s1 EXCEPT !.out = WriteAt(s1.out,
                             essential_metadata_size_hint_offset_to_patch,
                             metadata_hint),
                         !.pos = BLen(s1.out)]
        s3 == AloneGDALMetadata(AloneStrileArrays(s2, 1), 2)
        s4 == AlonePrimary(inf, nb, s3, 1)
        s5 == IF nb = 4 THEN AloneAccuracy(inf, s4, 1) ELSE s4
        s6 == AloneOffsetArrays(s5, 1)
    IN  IF signature # Signature
        THEN [out |-> <<>>, err |-> "AssertionError"]
        ELSE IF BLen(word) < 4 THEN [out |-> <<>>, err |-> "struct.error"]
        ELSE IF s1.err # "" THEN [out |-> s1.out, err |-> s1.err]
        ELSE IF BLen(metadata_hint) # BLen(dummy_metadata_hint)
        THEN [out |-> s1.out, err |-> "AssertionError"]
        ELSE IF s4.err # "" THEN [out |-> s4.out, err |-> s4.err]
        ELSE IF s6.err # "" THEN [out |-> s6.out, err |-> s6.err]
        ELSE [out |-> WriteAt(s6.out, s1.link, PackI(0)), err |-> ""]

(***************************************************************************)
(* The runs checked: the baseline containers and the arguments             *)
(***************************************************************************)

\* the most grids (the main grid and its sub-grids) of a container
MaxIFDs == 3

\* the byte length of a large strip
BigLen == 70000

DescriptionText == FromBytes(<<68, 69, 83, 67, 0>>)
PixelScaleA == Fill(7, 24)
PixelScaleB == Fill(9, 24)
MetadataA == FromBytes(<<60, 65, 62, 60, 47, 65, 62, 0>>)
MetadataB == FromBytes(<<60, 66, 62, 60, 47, 66, 0>>)

\* a main grid in strips, two to a band when there are four bands
MainGrid ==
    [fields |-> <<Inline(256, TIFF_SHORT, 1, 64),
                  Offline(270, TIFF_ASCII, DescriptionText),
                  StrileArray(TIFFTAG_STRIPOFFSETS, TIFF_LONG, "offsets", 8),
                  StrileArray(TIFFTAG_STRIPBYTECOUNTS, TIFF_LONG,
                              "bytecounts", 8),
                  Offline(33550, TIFF_DOUBLE, PixelScaleA),
                  Offline(TIFFTAG_GDAL_METADATA, TIFF_ASCII, MetadataA)>>,
     lens |-> <<3, 1, 2, 4, 1, 2, 2, 3>>]

\* a grid in tiles, some of them empty
TiledGrid ==
    [fields |-> <<Inline(256, TIFF_SHORT, 1, 32),
                  StrileArray(TIFFTAG_TILEOFFSETS, TIFF_LONG, "offsets", 4),
                  StrileArray(TIFFTAG_TILEBYTECOUNTS, TIFF_LONG,
                              "bytecounts", 4),
                  Offline(33550, TIFF_DOUBLE, PixelScaleA),
                  Offline(TIFFTAG_GDAL_METADATA, TIFF_ASCII, MetadataB)>>,
     lens |-> <<2, 0, 1, 0>>]

\* a grid whose strip arrays are of type SHORT, and two of whose fields have
\* the same content
NarrowGrid ==
    [fields |-> <<StrileArray(TIFFTAG_STRIPOFFSETS, TIFF_SHORT, "offsets", 4),
                  StrileArray(TIFFTAG_STRIPBYTECOUNTS, TIFF_SHORT,
                              "bytecounts", 4),
                  Offline(33550, TIFF_DOUBLE, PixelScaleB),
                  Offline(33922, TIFF_DOUBLE, PixelScaleB)>>,
     lens |-> <<1, 2, 1, 2>>]

\* a grid with a large strip
LargeGrid ==
    [fields |-> <<StrileArray(TIFFTAG_STRIPOFFSETS, TIFF_LONG, "offsets", 4),
                  StrileArray(TIFFTAG_STRIPBYTECOUNTS, TIFF_LONG,
                              "bytecounts", 4),
                  Offline(TIFFTAG_GDAL_METADATA, TIFF_ASCII, MetadataB)>>,
     lens |-> <<BigLen, 1, 1, 1>>]

\* a grid with a field of a type the typesize dict does not know
OddTypeGrid ==
    [fields |-> <<Inline(256, TIFF_SHORT, 1, 16),
                  Inline(257, 14, 1, 16),
                  StrileArray(TIFFTAG_STRIPOFFSETS, TIFF_LONG, "offsets", 4),
                  StrileArray(TIFFTAG_STRIPBYTECOUNTS, TIFF_LONG,
                              "bytecounts", 4)>>,
     lens |-> <<1, 1, 1, 1>>]

Grids == {MainGrid, TiledGrid, NarrowGrid, LargeGrid, OddTypeGrid}

\* signatures other than the classic little-endian one: BigTIFF, big-endian
OtherSignatures == {FromBytes(<<73, 73, 43, 0>>), FromBytes(<<77, 77, 0, 42>>)}

\* containers of up to MaxIFDs grids, and containers with another signature,
\* of which the run reads the first four bytes only
Containers ==
    {Container(Signature, grids) :
        grids \in UNION {[1..n -> Grids] : n \in 0..MaxIFDs}}
    \cup {Container(sig, grids) :
            sig \in OtherSignatures,
            grids \in UNION {[1..n -> Grids] : n \in 0..1}}

(***************************************************************************)
(* Containers a TIFF writer can produce but whose directories do not have  *)
(* the strip/tile arrays the pixel passes expect                           *)
(***************************************************************************)

\* the most directories of such a container
MaxIrregularIFDs == 2

\* six strips: three to a band with two bands, no whole number with four
SixStripGrid ==
    [fields |-> <<Inline(256, TIFF_SHORT, 1, 8),
                  StrileArray(TIFFTAG_STRIPOFFSETS, TIFF_LONG, "offsets", 6),
                  StrileArray(TIFFTAG_STRIPBYTECOUNTS, TIFF_LONG,
                              "bytecounts", 6)>>,
     lens |-> <<1, 2, 1, 2, 1, 2>>]

\* four strip offsets and two strip bytecounts
MismatchGrid ==
    [fields |-> <<StrileArray(TIFFTAG_STRIPOFFSETS, TIFF_LONG, "offsets", 4),
                  StrileArray(TIFFTAG_STRIPBYTECOUNTS, TIFF_LONG,
                              "bytecounts", 2),
                  Offline(33550, TIFF_DOUBLE, PixelScaleA)>>,
     lens |-> <<2, 2, 1, 1>>]

\* no strip/tile fields at all
BareGrid ==
    [fields |-> <<Inline(256, TIFF_SHORT, 1, 8),
                  Offline(33550, TIFF_DOUBLE, PixelScaleA)>>,
     lens |-> <<>>]

\* two strips: the offsets, of type LONG, are out of line; the bytecounts, of
\* type SHORT, fit in the entry
InlineCountsGrid ==
    [fields |-> <<StrileArray(TIFFTAG_STRIPOFFSETS, TIFF_LONG, "offsets", 2),
                  StrileArray(TIFFTAG_STRIPBYTECOUNTS, TIFF_SHORT,
                              "bytecounts", 2)>>,
     lens |-> <<3, 1>>]

\* a grid with a private field of four LONG values that are, byte for byte,
\* the tile bytecounts of TiledGrid
EchoGrid ==
    [fields |-> <<StrileArray(TIFFTAG_STRIPOFFSETS, TIFF_LONG, "offsets", 4),
                  StrileArray(TIFFTAG_STRIPBYTECOUNTS, TIFF_LONG,
                              "bytecounts", 4),
                  Offline(65000, TIFF_LONG,
                          PackArray(TIFF_LONG, TiledGrid.lens, 4))>>,
     lens |-> <<1, 1, 1, 1>>]

\* the length of a description with which the directory loop of a
\* one-directory container ends at offset HintLimit
HugeLen == 999880

\* a grid with a description of n bytes
LongGrid(n) ==
    [fields |-> <<Offline(270, TIFF_ASCII, Fill(65, n)),
                  StrileArray(TIFFTAG_STRIPOFFSETS, TIFF_LONG, "offsets", 2),
                  StrileArray(TIFFTAG_STRIPBYTECOUNTS, TIFF_LONG,
                              "bytecounts", 2)>>,
     lens |-> <<1, 2>>]

\* grids whose directory loop ends just below, at and above HintLimit
LongGrids == {LongGrid(n) : n \in (HugeLen - 2)..(HugeLen + 1)}

IrregularGrids ==
    {MainGrid, TiledGrid, SixStripGrid, MismatchGrid, BareGrid,
     InlineCountsGrid, EchoGrid}

\* the container of grids, with the chain pointer of the last directory
\* set to the offset of the first one
CyclicContainer(grids) ==
    LET n == Len(grids)
        start[k \in 1..n] ==
            IF k = 1 THEN 8 ELSE start[k - 1] + GridSize(grids[k - 1])
    IN  WriteAt(Container(Signature, grids),
                start[n] + RecordSize(Len(grids[n].fields)) - 4,
                PackI(8))

IrregularContainers ==
    {Container(Signature, grids) :
        grids \in UNION {[1..n -> IrregularGrids] : n \in 0..MaxIrregularIFDs}}
    \cup {CyclicContainer(grids) :
            grids \in UNION {[1..n -> {MainGrid, TiledGrid}] :
                                n \in 1..MaxIrregularIFDs}}
    \cup {Container(Signature, <<g>>) : g \in LongGrids}

\* no run of generate_optimized_file has started
OptimizeIdle ==
    /\ out_file = <<>>
    /\ out_pos = 0
    /\ next_ifd_offset = 0
    /\ next_ifd_offset_out_offset = 0
    /\ tagdict = <<>>
    /\ ifds = <<>>
    /\ offlinedata_to_offset = <<>>
    /\ idx = 0
    /\ pc = "start"
    /\ err = ""
    /\ open_files = {}

(***************************************************************************)
(* create_unoptimized_file(sourcefilename, tmpfilename, args): one         *)
(* directory of the baseline container per grid of the source.  The source *)
(* grids pass the function's checks of their metadata; what the model      *)
(* keeps of a directory is which metadata items and band attributes it     *)
(* was given.                                                              *)
(***************************************************************************)

\* Line 148: compact_md = True if len(subdatsets) > 50 else False
CompactThreshold == 50

\* compact from the threshold on
IsCompactFromThreshold(n) == n >= CompactThreshold

IsCompact(n) == n > CompactThreshold

\* Lines 126-148
OpenSource ==
    /\ cpc = "start"
    /\ compact_md' = IsCompact(num_subdatsets)
    /\ idx_ifd' = 0
    /\ cpc' = "grids"
    /\ UNCHANGED <<num_subdatsets, args, tmp_dirs, cerr>>
    /\ UNCHANGED outside_create

\* Lines 184-187, 201-204, 211-214, 221-224: the bands given a description
\* and a unit type
DescribedBands(a, i, compact) ==
    IF i = 0 \/ ~compact
    THEN IF a.nbands = 4 THEN {1, 2, 3, 4} ELSE {1, 2}
    ELSE {}

\* Lines 163-173, 226-235, 294-298: the metadata items set on directory i
MetadataItems(a, i, compact) ==
    {"AREA_OR_POINT", "TYPE", "grid_name"}
    \cup (IF i = 0 \/ ~compact
          THEN {IF a.epsg THEN "target_crs_epsg_code" ELSE "target_crs_wkt"}
          ELSE {})
    \cup (IF i = 0
          THEN {"TIFFTAG_IMAGEDESCRIPTION", "TIFFTAG_COPYRIGHT"}
          ELSE {})

\* Lines 237-294: the value of TIFFTAG_IMAGEDESCRIPTION set on directory i,
\* "" when none is set: args.description when it is given, or else the text
\* made of the CRS names, the source file name, the version and the date
ImageDescription(a, i) ==
    IF i # 0 THEN ""
    ELSE IF a.description # "" THEN a.description
    ELSE "generated"

\* Lines 150-313, one grid: build the dataset in memory and append it to
\* tmpfilename.  On the first grid, line 291 reads extra_info, which only
\* line 255, under "if not desc", has assigned.
CreateCopy ==
    /\ cpc = "grids"
    /\ IF idx_ifd >= num_subdatsets
       THEN /\ cpc' = "done"
            /\ UNCHANGED <<idx_ifd, tmp_dirs, cerr>>
       ELSE IF idx_ifd = 0 /\ args.description # ""
       THEN /\ cpc' = "aborted"
            /\ cerr' = "UnboundLocalError"
            /\ UNCHANGED <<idx_ifd, tmp_dirs>>
       ELSE /\ tmp_dirs' =
                  Append(tmp_dirs,
                         [described |->
                              DescribedBands(args, idx_ifd, compact_md),
                          items |->
                              MetadataItems(args, idx_ifd, compact_md),
                          image_description |->
                              ImageDescription(args, idx_ifd)])
            /\ idx_ifd' = idx_ifd + 1
            /\ UNCHANGED <<cpc, cerr>>
    /\ UNCHANGED <<num_subdatsets, args, compact_md>>
    /\ UNCHANGED outside_create

\* no run of create_unoptimized_file is modelled
CreateIdle ==
    /\ num_subdatsets = 0
    /\ args = [nbands |-> 0, uint16_encoding |-> FALSE, epsg |-> FALSE,
               description |-> ""]
    /\ compact_md = FALSE
    /\ idx_ifd = 0
    /\ tmp_dirs = <<>>
    /\ cpc = "idle"
    /\ cerr = ""

\* the most grids of a source file
MaxGrids == 51

\* there is no second run of generate_optimized_file
NoOther == other = <<>>

\* the script convert_all.py is not run
ConvertIdle ==
    /\ overwrite = FALSE
    /\ only = ""
    /\ rows = <<>>
    /\ row_idx = 0
    /\ files = <<>>
    /\ steps = <<>>
    /\ mpc = "idle"
    /\ merr = ""

(***************************************************************************)
(* The script convert_all.py: one turn of the loop of line 72 per row of   *)
(* filelist.csv.  A row is [src_filename, type, agency_name, found]: the   *)
(* name of the grid file without its extension, the type column, the       *)
(* agency column, and whether lines 80-85 find the file.  A path is        *)
(* <<agency_name, src_filename, extension>>.                               *)
(***************************************************************************)

\* the most rows of filelist.csv
MaxRows == 2

\* Lines 103-104: cvt_args.dest
Dest(row) == <<row.agency_name, row.src_filename, ".tif">>

\* Lines 125, 147, 171: tmpfilename = cvt_args.dest + '.tmp'
Tmp(row) == <<row.agency_name, row.src_filename, ".tif.tmp">>

\* os.path.exists(path)
Exists(path) == path \in DOMAIN files

\* gdal.Unlink(path)
Unlink(fs, path) == [q \in DOMAIN fs \ {path} |-> fs[q]]

\* path written with content
Written(fs, path, content) == (path :> content) @@ fs

\* no row is skipped for its destination
SkipNever(exists, ow) == FALSE

\* Line 106: os.path.exists(cvt_args.dest) and not args.overwrite
SkipExisting(exists, ow) == exists /\ ~ow

\* the steps of row i, in the order of their names
StepsOf(i, names) == [k \in 1..Len(names) |-> <<i, names[k]>>]

\* Lines 110-132.  create_unoptimized_file asserts that the source is an
\* NTv2 file with consistent metadata, which the script does not control;
\* generate_optimized_file(tmpfilename, destfilename, args) is then called
\* with two arguments.
ConvertHorizontal(row) ==
    \E created \in BOOLEAN :
        /\ steps' = steps \o StepsOf(row_idx,
                        IF created
                        THEN <<"Unlink", "create_unoptimized_file",
                               "generate_optimized_file">>
                        ELSE <<"Unlink", "create_unoptimized_file">>)
        /\ files' = IF created
                    THEN Written(Unlink(files, Tmp(row)), Tmp(row),
                                 <<"unoptimized", row_idx>>)
                    ELSE Unlink(files, Tmp(row))
        /\ merr' = IF created THEN "TypeError" ELSE "AssertionError"
        /\ mpc' = "aborted"
        /\ row_idx' = row_idx

\* Lines 134-179.  The functions of vertoffset_grid_to_gtiff either all
\* return, leaving the destination written, or one of them raises.
ConvertVertical(row) ==
    \E raised \in {"", "create_unoptimized_file", "generate_optimized_file",
                    "check"} :
        LET names == <<"Unlink", "create_unoptimized_file",
                       "generate_optimized_file", "check", "Unlink">>
            last == CHOOSE k \in 1..5 :
                        IF raised = "" THEN k = 5 ELSE names[k] = raised
            fs1 == Unlink(files, Tmp(row))
            fs2 == IF last >= 3 \/ raised = ""
                   THEN Written(fs1, Tmp(row), <<"unoptimized", row_idx>>)
                   ELSE fs1
            fs3 == IF last >= 4 \/ raised = ""
                   THEN Written(fs2, Dest(row), <<"optimized", row_idx>>)
                   ELSE fs2
        IN  /\ steps' = steps \o StepsOf(row_idx, SubSeq(names, 1, last))
            /\ files' = IF raised = "" THEN Unlink(fs3, Tmp(row)) ELSE fs3
            /\ merr' = IF raised = "" THEN merr ELSE "Exception"
            /\ mpc' = IF raised = "" THEN mpc ELSE "aborted"
            /\ row_idx' = IF raised = "" THEN row_idx + 1 ELSE row_idx

\* Lines 72-182 for the row at row_idx
ConvertRow ==
    /\ mpc = "rows"
    /\ row_idx <= Len(rows)
    /\ LET row == rows[row_idx]
           continue == /\ row_idx' = row_idx + 1
                       /\ UNCHANGED <<files, steps, mpc, merr>>
       IN  IF ~row.found THEN continue
           ELSE IF only # "" /\ row.src_filename # only THEN continue
           ELSE IF SkipExisting(Exists(Dest(row)), overwrite) THEN continue
           ELSE IF row.type = "HORIZONTAL_OFFSET" THEN ConvertHorizontal(row)
           ELSE IF row.type = "VERTICAL_OFFSET_GEOGRAPHIC_TO_VERTICAL"
           THEN ConvertVertical(row)
           ELSE IF row.type = "VERTICAL_OFFSET_VERTICAL_TO_VERTICAL"
           THEN \/ ConvertVertical(row)
                \/ /\ mpc' = "aborted"
                   /\ merr' = "AssertionError"
                   /\ UNCHANGED <<row_idx, files, steps>>
           ELSE continue
    /\ UNCHANGED <<overwrite, only, rows>>
    /\ UNCHANGED <<optvars, crevars, other>>

\* the reader has no more rows: the script ends
EndOfRows ==
    /\ mpc = "rows"
    /\ row_idx > Len(rows)
    /\ mpc' = "done"
    /\ UNCHANGED <<overwrite, only, rows, row_idx, files, steps, merr>>
    /\ UNCHANGED <<optvars, crevars, other>>

\* the rows a catalog is made of
CatalogRows ==
    [src_filename : {"x", "y"},
     type : {"HORIZONTAL_OFFSET", "VERTICAL_OFFSET_GEOGRAPHIC_TO_VERTICAL",
             "VERTICAL_OFFSET_VERTICAL_TO_VERTICAL", "OTHER"},
     agency_name : {"agency"},
     found : BOOLEAN]

(***************************************************************************)
(* Specifications                                                          *)
(***************************************************************************)

\* runs of generate_optimized_file
Init ==
    /\ in_file \in Containers
    /\ nbands \in {2, 4}
    /\ OptimizeIdle
    /\ CreateIdle
    /\ NoOther
    /\ ConvertIdle

Next ==
    \/ OpenFiles
    \/ ReadIFD
    \/ WriteOfflineTags
    \/ PatchMetadataHint
    \/ WriteStrileArrays
    \/ WriteGDALMetadata
    \/ WritePrimary
    \/ WriteAccuracy
    \/ WriteOffsetArrays
    \/ PatchLastIFD

Spec == Init /\ [][Next]_vars

\* runs of create_unoptimized_file
InitCreate ==
    /\ num_subdatsets \in 1..MaxGrids
    /\ args \in [nbands : {2, 4}, uint16_encoding : BOOLEAN, epsg : BOOLEAN,
                 description : {"", "text"}]
    /\ compact_md = FALSE
    /\ idx_ifd = 0
    /\ tmp_dirs = <<>>
    /\ cpc = "start"
    /\ cerr = ""
    /\ in_file = <<>>
    /\ nbands = args.nbands
    /\ OptimizeIdle
    /\ NoOther
    /\ ConvertIdle

NextCreate ==
    \/ OpenSource
    \/ CreateCopy

SpecCreate == InitCreate /\ [][NextCreate]_vars

\* runs of generate_optimized_file on the irregular containers
InitIrregular ==
    /\ in_file \in IrregularContainers
    /\ nbands \in {2, 4}
    /\ OptimizeIdle
    /\ CreateIdle
    /\ NoOther
    /\ ConvertIdle

SpecIrregular == InitIrregular /\ [][Next]_vars

\* runs of convert_all.py: a catalog, the options, and a target directory
\* that holds the destinations of some earlier run
InitConvert ==
    /\ overwrite \in BOOLEAN
    /\ only \in {"", "x"}
    /\ rows \in UNION {[1..n -> CatalogRows] : n \in 0..MaxRows}
    /\ row_idx = 1
    /\ files \in {[path \in old |-> <<"old">>] :
                    old \in SUBSET {<<"agency", "x", ".tif">>,
                                    <<"agency", "y", ".tif">>}}
    /\ steps = <<>>
    /\ mpc = "rows"
    /\ merr = ""
    /\ in_file = <<>>
    /\ nbands = 4
    /\ OptimizeIdle
    /\ CreateIdle
    /\ NoOther

NextConvert ==
    \/ ConvertRow
    \/ EndOfRows

SpecConvert == InitConvert /\ [][NextConvert]_vars

(***************************************************************************)
(* Two runs of generate_optimized_file at once, each on its own files.     *)
(* Everything a run works on is a local variable of its call (lines        *)
(* 379-399) or one of its two files, so a run that is not taking a step    *)
(* keeps all of it; the module has no variable the function assigns.       *)
(***************************************************************************)

\* the inputs of the two runs
PairContainers ==
    {Container(Signature, <<MainGrid>>),
     Container(Signature, <<TiledGrid, MainGrid>>),
     Container(Signature, <<OddTypeGrid>>)}

\* a run that has not started, on the input inf with nb bands
IdleRun(inf, nb) ==
    [in_file |-> inf, nbands |-> nb, out_file |-> <<>>, out_pos |-> 0,
     next_ifd_offset |-> 0, next_ifd_offset_out_offset |-> 0,
     tagdict |-> <<>>, ifds |-> <<>>, offlinedata_to_offset |-> <<>>,
     idx |-> 0, pc |-> "start", err |-> "", open_files |-> {}]

\* one dict for both runs: the run that resumes finds the cache as the other
\* run left it
SharedCache(run) == offlinedata_to_offset

\* offlinedata_to_offset of the run that resumes: its own dict, of line 397
ResumedCache(run) == run.offlinedata_to_offset

\* the run that takes the steps: its local variables and its files
ThisRun ==
    [in_file |-> in_file, nbands |-> nbands, out_file |-> out_file,
     out_pos |-> out_pos, next_ifd_offset |-> next_ifd_offset,
     next_ifd_offset_out_offset |-> next_ifd_offset_out_offset,
     tagdict |-> tagdict, ifds |-> ifds,
     offlinedata_to_offset |-> offlinedata_to_offset,
     idx |-> idx, pc |-> pc, err |-> err, open_files |-> open_files]

\* The scheduler takes the running call off and puts the other one on: the
\* next step is the other run's
Switch ==
    /\ other # <<>>
    /\ other' = ThisRun
    /\ in_file' = other.in_file
    /\ nbands' = other.nbands
    /\ out_file' = other.out_file
    /\ out_pos' = other.out_pos
    /\ next_ifd_offset' = other.next_ifd_offset
    /\ next_ifd_offset_out_offset' = other.next_ifd_offset_out_offset
    /\ tagdict' = other.tagdict
    /\ ifds' = other.ifds
    /\ offlinedata_to_offset' = ResumedCache(other)
    /\ idx' = other.idx
    /\ pc' = other.pc
    /\ err' = other.err
    /\ open_files' = other.open_files
    /\ UNCHANGED <<crevars, cvtvars>>

InitPair ==
    /\ in_file \in PairContainers
    /\ nbands \in {2, 4}
    /\ OptimizeIdle
    /\ other \in {IdleRun(inf, nb) : inf \in PairContainers, nb \in {2, 4}}
    /\ CreateIdle
    /\ ConvertIdle

NextPair ==
    \/ OpenFiles
    \/ ReadIFD
    \/ WriteOfflineTags
    \/ PatchMetadataHint
    \/ WriteStrileArrays
    \/ WriteGDALMetadata
    \/ WritePrimary
    \/ WriteAccuracy
    \/ WriteOffsetArrays
    \/ PatchLastIFD
    \/ Switch

SpecPair == InitPair /\ [][NextPair]_vars

(***************************************************************************)
(* Reading a container back, as a TIFF reader does: the header pointer,    *)
(* the chain of directories, the fields of a directory and their payloads  *)
(***************************************************************************)

\* the n bytes at off lie inside f
Readable(f, off, n) == off >= 0 /\ n >= 0 /\ off <= BLen(f) - n

\* bytes per value of a type code, 0 for a code the table does not hold
SizeOf(type) == IF type \in DOMAIN typesize THEN typesize[type] ELSE 0

\* the 12-byte field record at offset at; at + 8 is where its value word is
FieldAt(f, at) ==
    LET b == ToBytes(ReadAt(f, at, 8))
    IN  [id |-> b[1] + 256 * b[2],
         type |-> b[3] + 256 * b[4],
         count |-> IF b[8] >= 128 THEN Huge
                   ELSE b[5] + 256 * b[6] + 65536 * b[7] + 16777216 * b[8],
         word |-> ReadAt(f, at + 8, 4),
         at |-> at + 8]

\* a whole directory record lies at off
WholeDir(f, off) ==
    /\ off > 0
    /\ Readable(f, off, 2)
    /\ Readable(f, off, RecordSize(UnpackH(ReadAt(f, off, 2))))

\* the directory record at off
DirAt(f, off) ==
    LET n == UnpackH(ReadAt(f, off, 2))
    IN  [offset |-> off,
         fields |-> [j \in 1..n |-> FieldAt(f, off + 2 + 12 * (j - 1))] \o <<>>,
         end |-> off + RecordSize(n),
         next |-> UnpackI(ReadAt(f, off + 2 + 12 * n, 4))]

\* the directories met from pointer off on, at most fuel of them
RECURSIVE ChainFrom(_, _, _)
ChainFrom(f, off, fuel) ==
    IF fuel = 0 \/ ~WholeDir(f, off) THEN <<>>
    ELSE LET dir == DirAt(f, off)
         IN  <<dir>> \o ChainFrom(f, dir.next, fuel - 1)

\* the pointer at which that walk stops: 0 at the end of a chain
RECURSIVE ChainEnd(_, _, _)
ChainEnd(f, off, fuel) ==
    IF fuel = 0 \/ ~WholeDir(f, off) THEN off
    ELSE ChainEnd(f, DirAt(f, off).next, fuel - 1)

\* the first-directory pointer of the header
FirstIFD(f) == IF Readable(f, 4, 4) THEN UnpackI(ReadAt(f, 4, 4)) ELSE 0

\* the directories of f, in chain order
Directories(f) == ChainFrom(f, FirstIFD(f), MaxIFDs + 1)

\* count x sizeOf(type)
FieldSize(fld) == fld.count * SizeOf(fld.type)

\* the field keeps its values out of line
OutOfLine(fld) == FieldSize(fld) > 4

\* the pointer an out-of-line field holds
Pointer(fld) == UnpackI(fld.word)

\* the field's payload lies inside f
HasPayload(f, fld) == Readable(f, Pointer(fld), FieldSize(fld))

\* the payload bytes of an out-of-line field
Payload(f, fld) == ReadAt(f, Pointer(fld), FieldSize(fld))

\* the values of a field of SHORT or LONG
Values(f, fld) ==
    LET data == IF OutOfLine(fld) THEN Payload(f, fld)
                ELSE BTake(fld.word, FieldSize(fld))
        width == SizeOf(fld.type)
    IN  [i \in 1..fld.count |->
            IF width = 2 THEN UnpackH(ReadAt(data, 2 * (i - 1), 2))
            ELSE UnpackI(ReadAt(data, 4 * (i - 1), 4))] \o <<>>

\* the fields of dir whose id is in ids
FieldsOf(dir, ids) == SelectSeq(dir.fields, LAMBDA fld : fld.id \in ids)

\* the values of the first field of dir with an id in ids, <<>> without one
ArrayOf(f, dir, ids) ==
    LET flds == FieldsOf(dir, ids)
    IN  IF flds = <<>> \/ flds[1].type \notin {TIFF_SHORT, TIFF_LONG}
           \/ (OutOfLine(flds[1]) /\ ~HasPayload(f, flds[1]))
        THEN <<>>
        ELSE Values(f, flds[1])

\* the strip/tile offsets and byte counts a directory of f declares
StrileOffsets(f, dir) == ArrayOf(f, dir, StrileOffsetTags)
StrileLengths(f, dir) == ArrayOf(f, dir, StrileTags \ StrileOffsetTags)

(***************************************************************************)
(* Properties of generate_optimized_file                                   *)
(***************************************************************************)

\* C1: after generate_optimized_file completes, for every directory d and
\* every strip/tile index i, the output bytes at the offset that position i
\* of directory d's strip/tile offset array of the output file holds, for the
\* length of the byte count, are the input bytes of strip/tile i of
\* directory d.
C1_PixelBytesIdentical ==
    pc = "done" =>
        LET ind == Directories(in_file)
            outd == Directories(out_file)
        IN  /\ Len(outd) = Len(ind)
            /\ \A d \in 1..Len(ind) :
                  LET in_offset == StrileOffsets(in_file, ind[d])
                      bytecount == StrileLengths(in_file, ind[d])
                      out_offset == StrileOffsets(out_file, outd[d])
                  IN  /\ Len(out_offset) = Len(in_offset)
                      /\ \A i \in 1..Len(in_offset) :
                            /\ Readable(out_file, out_offset[i], bytecount[i])
                            /\ ReadAt(out_file, out_offset[i], bytecount[i])
                               = ReadAt(in_file, in_offset[i], bytecount[i])

\* a completed run of four bands over several directories, one of them with
\* a large strip, whose strips all moved
C1_Witness ==
    /\ pc = "done"
    /\ nbands = 4
    /\ LET ind == Directories(in_file)
           outd == Directories(out_file)
       IN  /\ Len(ind) >= 2
           /\ \E d \in 1..Len(ind) :
                 \E i \in 1..Len(StrileLengths(in_file, ind[d])) :
                    StrileLengths(in_file, ind[d])[i] >= BigLen
           /\ \A d \in 1..Len(ind) :
                 \A i \in 1..Len(StrileOffsets(in_file, ind[d])) :
                    StrileOffsets(out_file, outd[d])[i]
                    # StrileOffsets(in_file, ind[d])[i]

\* C2: after generate_optimized_file completes, every out-of-line field of
\* every output directory other than the strip/tile offset array, whether its
\* pointer was written in the directory loop from the cache or patched later,
\* points at an output region whose count x sizeOf(type) bytes are the
\* payload bytes of that field in the input file.
C2_PointersResolved ==
    pc = "done" =>
        LET ind == Directories(in_file)
            outd == Directories(out_file)
        IN  /\ Len(outd) = Len(ind)
            /\ \A d \in 1..Len(ind) :
                  /\ Len(outd[d].fields) = Len(ind[d].fields)
                  /\ \A j \in 1..Len(ind[d].fields) :
                        LET fi == ind[d].fields[j]
                            fo == outd[d].fields[j]
                        IN  /\ fo.id = fi.id
                            /\ FieldSize(fo) = FieldSize(fi)
                            /\ (OutOfLine(fo) /\ fo.id \notin StrileOffsetTags)
                                  => /\ HasPayload(out_file, fo)
                                     /\ Payload(out_file, fo)
                                        = Payload(in_file, fi)

\* a completed run in which a field of a later directory took its pointer
\* from the cache, and another later directory has GDAL metadata of its own
C2_Witness ==
    /\ pc = "done"
    /\ LET outd == Directories(out_file)
       IN  /\ \E d \in 2..Len(outd) :
                 \E j \in 1..Len(outd[d].fields) :
                    \E k \in 1..Len(outd[1].fields) :
                       /\ OutOfLine(outd[d].fields[j])
                       /\ OutOfLine(outd[1].fields[k])
                       /\ outd[d].fields[j].id \notin StrileTags
                       /\ Pointer(outd[d].fields[j])
                          = Pointer(outd[1].fields[k])
           /\ \E d \in 2..Len(outd) :
                 \E j \in 1..Len(outd[d].fields) :
                    /\ outd[d].fields[j].id = TIFFTAG_GDAL_METADATA
                    /\ \A k \in 1..Len(outd[1].fields) :
                          Pointer(outd[d].fields[j])
                          # Pointer(outd[1].fields[k])

\* what identifies a directory of f: the id, type and count of its fields,
\* and the bytes of its strips or tiles
DirContent(f, dir) ==
    LET offs == StrileOffsets(f, dir)
        lens == StrileLengths(f, dir)
    IN  [fields |-> [j \in 1..Len(dir.fields) |->
                        <<dir.fields[j].id, dir.fields[j].type,
                          dir.fields[j].count>>] \o <<>>,
         data |-> IF Len(offs) # Len(lens) THEN <<>>
                  ELSE [i \in 1..Len(offs) |->
                           IF Readable(f, offs[i], lens[i])
                           THEN ReadAt(f, offs[i], lens[i])
                           ELSE <<>>] \o <<>>]

\* C3: after generate_optimized_file completes, following the output chain
\* from the header's first-directory pointer visits as many directories as
\* the input chain has, in the same order, visits no directory twice and ends
\* at a chain pointer of zero; for an input without directories the header
\* pointer itself is zero.
C3_ChainPreserved ==
    pc = "done" =>
        LET ind == Directories(in_file)
            outd == Directories(out_file)
        IN  /\ Len(outd) = Len(ind)
            /\ ChainEnd(out_file, FirstIFD(out_file), MaxIFDs + 1) = 0
            /\ \A a, b \in 1..Len(outd) :
                  a # b => outd[a].offset # outd[b].offset
            /\ \A d \in 1..Len(ind) :
                  DirContent(out_file, outd[d]) = DirContent(in_file, ind[d])
            /\ (ind = <<>>) => (FirstIFD(out_file) = 0)

\* a completed run over a chain of at least two directories that differ
C3_Witness ==
    /\ pc = "done"
    /\ LET ind == Directories(in_file)
       IN  /\ Len(ind) >= 2
           /\ Len(Directories(out_file)) = Len(ind)
           /\ Len(ind[1].fields) # Len(ind[2].fields)

\* the strips/tiles of the bands in bands (counted from 0) of a directory of
\* f in a file of four bands, as pairs <<output offset, byte length>>
BandSegments(f, dir, bands) ==
    LET offs == StrileOffsets(f, dir)
        lens == StrileLengths(f, dir)
        per_band == Len(offs) \div 4
    IN  {<<offs[i], lens[i]>> :
            i \in {k \in 1..Len(offs) : (k - 1) \div per_band \in bands}}

\* those of all directories of f
AllBandSegments(f, bands) ==
    LET dirs == Directories(f)
    IN  UNION {BandSegments(f, dirs[d], bands) : d \in 1..Len(dirs)}

\* C4: in a completed run with band count 4, no primary-band segment (bands 0
\* and 1) of any directory has an output offset above that of an
\* accuracy-band segment (bands 2 and 3) of any directory, and a primary-band
\* segment of non-zero byte length has an output offset strictly less than
\* that of every accuracy-band segment.
C4_PrimaryBeforeAccuracy ==
    (pc = "done" /\ nbands = 4) =>
        \A p \in AllBandSegments(out_file, {0, 1}) :
           \A a \in AllBandSegments(out_file, {2, 3}) :
              /\ p[1] <= a[1]
              /\ (p[2] > 0) => (p[1] < a[1])

\* a completed run with four bands in which a primary-band segment of zero
\* bytes shares its offset with an accuracy-band segment, next to
\* primary-band segments that have bytes
C4_Witness ==
    /\ pc = "done"
    /\ nbands = 4
    /\ \E p \in AllBandSegments(out_file, {0, 1}) :
          /\ p[2] = 0
          /\ \E a \in AllBandSegments(out_file, {2, 3}) : a[1] = p[1]
    /\ \E p \in AllBandSegments(out_file, {0, 1}) : p[2] > 0

\* C4 as stated: strictly less for all segment byte lengths, zero included
C4_StrictForAllLengths ==
    (pc = "done" /\ nbands = 4) =>
        \A p \in AllBandSegments(out_file, {0, 1}) :
           \A a \in AllBandSegments(out_file, {2, 3}) : p[1] < a[1]

\* a descriptive out-of-line field: any out-of-line field but the strip/tile
\* offset and bytecount arrays
Descriptive(fld) == OutOfLine(fld) /\ fld.id \notin StrileTags

\* a descriptive field of directory d (counted from 1) whose payload the
\* directory loop writes or takes from the cache: all but the tag 42112
\* field of the directories after the first
WrittenInLoop(fld, d) ==
    Descriptive(fld) /\ (fld.id # TIFFTAG_GDAL_METADATA \/ d = 1)

\* field j of directory a and field k of directory b of the input are
\* descriptive and have the same content
SameContent(ind, a, j, b, k) ==
    /\ Descriptive(ind[a].fields[j])
    /\ Descriptive(ind[b].fields[k])
    /\ Payload(in_file, ind[a].fields[j]) = Payload(in_file, ind[b].fields[k])

\* C5: in a completed run, when a descriptive out-of-line field of a
\* directory and one of a later directory have identical byte content, and
\* the earlier field is not the tag 42112 field of a directory after the
\* first and is the last such field of its directory with that content, then
\* the two fields' pointers in the output are equal: they share one copy of
\* the content.
C5_SharedAcrossDirectories ==
    pc = "done" =>
        LET ind == Directories(in_file)
            outd == Directories(out_file)
        IN  \A a \in 1..Len(ind) : \A b \in (a + 1)..Len(ind) :
               \A j \in 1..Len(ind[a].fields) :
                  \A k \in 1..Len(ind[b].fields) :
                     (/\ SameContent(ind, a, j, b, k)
                      /\ WrittenInLoop(ind[a].fields[j], a)
                      /\ \A j2 \in (j + 1)..Len(ind[a].fields) :
                            ~(/\ SameContent(ind, a, j, a, j2)
                              /\ WrittenInLoop(ind[a].fields[j2], a)))
                     => Pointer(outd[a].fields[j]) = Pointer(outd[b].fields[k])

\* a completed run in which the tag 42112 field of a later directory shares
\* the copy of the first directory's, and another field shares one too
C5_Witness ==
    /\ pc = "done"
    /\ LET ind == Directories(in_file)
           outd == Directories(out_file)
       IN  /\ \E b \in 2..Len(ind) :
                 \E j \in 1..Len(ind[1].fields) :
                    \E k \in 1..Len(ind[b].fields) :
                       /\ SameContent(ind, 1, j, b, k)
                       /\ ind[b].fields[k].id = TIFFTAG_GDAL_METADATA
                       /\ Pointer(outd[1].fields[j])
                          = Pointer(outd[b].fields[k])
           /\ \E a \in 1..Len(ind) : \E b \in (a + 1)..Len(ind) :
                 \E j \in 1..Len(ind[a].fields) :
                    \E k \in 1..Len(ind[b].fields) :
                       /\ SameContent(ind, a, j, b, k)
                       /\ ind[a].fields[j].id # TIFFTAG_GDAL_METADATA
                       /\ Pointer(outd[a].fields[j])
                          = Pointer(outd[b].fields[k])

\* C5 as stated: equal pointers for identical content in any two different
\* directories, the tag 42112 field included
C5_SharedInAnyTwoDirectories ==
    pc = "done" =>
        LET ind == Directories(in_file)
            outd == Directories(out_file)
        IN  \A a \in 1..Len(ind) : \A b \in (a + 1)..Len(ind) :
               \A j \in 1..Len(ind[a].fields) :
                  \A k \in 1..Len(ind[b].fields) :
                     SameContent(ind, a, j, b, k)
                     => Pointer(outd[a].fields[j]) = Pointer(outd[b].fields[k])

\* the number that the ASCII decimal digits ds write, -1 when a byte of ds
\* is no digit
RECURSIVE Decimal(_)
Decimal(ds) ==
    IF ds = <<>> THEN 0
    ELSE LET d == ds[Len(ds)] - 48
             r == Decimal(SubSeq(ds, 1, Len(ds) - 1))
         IN  IF d \notin 0..9 \/ r < 0 THEN -1 ELSE 10 * r + d

\* the number in the '-- Metadata size: NNNNNN --' marker of f, -1 when the
\* bytes after the banner are no such marker
MarkerValue(f) ==
    LET at == essential_metadata_size_hint_offset_to_patch
        n == BLen(dummy_metadata_hint)
        bytes == ToBytes(ReadAt(f, at, n))
        digits == SubSeq(bytes, Len(HintPrefix) + 1, n - Len(HintSuffix))
    IN  IF Readable(f, at, n)
           /\ SubSeq(bytes, 1, Len(HintPrefix)) = HintPrefix
           /\ SubSeq(bytes, n - Len(HintSuffix) + 1, n) = HintSuffix
        THEN Decimal(digits)
        ELSE -1

\* the largest member of a non-empty set of numbers
Max(S) == CHOOSE x \in S : \A y \in S : y <= x

\* where the directory loop ends in f: after the marker, the directory
\* records and the payloads of the descriptive fields, those of tag 42112 of
\* the directories after the first left out
DirectoryLoopEnd(f) ==
    LET dirs == Directories(f)
    IN  Max({essential_metadata_size_hint_offset_to_patch
             + BLen(dummy_metadata_hint)}
            \cup {dirs[d].end : d \in 1..Len(dirs)}
            \cup UNION {{Pointer(dirs[d].fields[j])
                          + FieldSize(dirs[d].fields[j]) :
                            j \in {k \in 1..Len(dirs[d].fields) :
                                      WrittenInLoop(dirs[d].fields[k], d)}} :
                         d \in 1..Len(dirs)})

\* the output offsets at which the out-of-line strip/tile arrays of f start
StrileArrayOffsets(f) ==
    LET dirs == Directories(f)
    IN  UNION {{Pointer(dirs[d].fields[j]) :
                  j \in {k \in 1..Len(dirs[d].fields) :
                            /\ dirs[d].fields[k].id \in StrileTags
                            /\ OutOfLine(dirs[d].fields[k])}} :
               d \in 1..Len(dirs)}

\* the offsets of the strips/tiles of f
SegmentOffsets(f) ==
    LET dirs == Directories(f)
    IN  UNION {{StrileOffsets(f, dirs[d])[i] :
                  i \in 1..Len(StrileOffsets(f, dirs[d]))} :
               d \in 1..Len(dirs)}

\* C6: after generate_optimized_file completes, the decimal number in the
\* '-- Metadata size: NNNNNN --' marker is the output offset that follows the
\* directory records and the payloads written with them in the directory
\* loop; every strip/tile offset or bytecount array and every pixel segment
\* lies at or after that offset.
C6_MarkerIsDirectoryLoopEnd ==
    pc = "done" =>
        LET M == MarkerValue(out_file)
        IN  /\ M = DirectoryLoopEnd(out_file)
            /\ \A o \in StrileArrayOffsets(out_file) : o >= M
            /\ \A o \in SegmentOffsets(out_file) : o >= M

\* a completed run over several directories whose strip/tile arrays lie
\* after the offset of the marker, before the first pixel segment
C6_Witness ==
    /\ pc = "done"
    /\ Len(Directories(out_file)) >= 2
    /\ MarkerValue(out_file) > essential_metadata_size_hint_offset_to_patch
    /\ \E o \in StrileArrayOffsets(out_file) :
          /\ o >= MarkerValue(out_file)
          /\ \A g \in SegmentOffsets(out_file) : o < g

\* C6 as stated: the number is the offset of the first pixel byte, no
\* directory record, auxiliary payload or strip/tile array lies at or after
\* it and no pixel segment lies before it
C6_MarkerIsFirstPixelByte ==
    pc = "done" =>
        LET M == MarkerValue(out_file)
            dirs == Directories(out_file)
        IN  /\ \A d \in 1..Len(dirs) :
                  /\ dirs[d].end <= M
                  /\ \A j \in 1..Len(dirs[d].fields) :
                        OutOfLine(dirs[d].fields[j])
                        => Pointer(dirs[d].fields[j])
                           + FieldSize(dirs[d].fields[j]) <= M
            /\ \A o \in SegmentOffsets(out_file) : o >= M
            /\ (SegmentOffsets(out_file) # {})
                  => (M \in SegmentOffsets(out_file))

\* the strip/tile offset array of ifd is of type SHORT
ShortOffsets(ifd) ==
    \E id \in StrileOffsetTags :
       /\ HasTag(ifd.tagdict, id)
       /\ GetTag(ifd.tagdict, id).tagtype = TIFF_SHORT

\* the strips/tiles of ifd relocated to an offset of 65536 or more
Relocated64K(ifd) ==
    {i \in 1..Len(ifd.strile_offset_out) : ifd.strile_offset_out[i] >= 65536}

\* C7: once a strip/tile of a directory whose offset array is of type SHORT
\* has been relocated to an offset of 65536 or more, the run never gets past
\* the writing of that directory's offset array, so it does not complete,
\* and the 2-byte element of that strip/tile keeps the zero bytes written
\* as room for the array: no truncated or wrapped value is written.
C7_ShortOffsetAborts ==
    \A d \in 1..Len(ifds) :
       (ShortOffsets(ifds[d]) /\ Relocated64K(ifds[d]) # {}) =>
           /\ pc \notin {"patch_last", "done"}
           /\ ~(pc = "offset_arrays" /\ idx > d)
           /\ \A i \in Relocated64K(ifds[d]) :
                 ReadAt(out_file, ifds[d].offset_out_offsets + 2 * (i - 1), 2)
                 = Fill(0, 2)

\* a run aborted by the assertion at the offset array of such a directory
C7_Witness ==
    /\ pc = "aborted"
    /\ err = "AssertionError"
    /\ idx \in 1..Len(ifds)
    /\ ShortOffsets(ifds[idx])
    /\ Relocated64K(ifds[idx]) # {}

\* the strips/tiles of f as <<directory, index>>
Segments(f) ==
    LET dirs == Directories(f)
    IN  UNION {{<<d, i>> : i \in 1..Len(StrileOffsets(f, dirs[d]))} :
               d \in 1..Len(dirs)}

\* the strip/tile offsets, and the byte counts, that each directory of f
\* declares
AllStrileOffsets(f) ==
    LET dirs == Directories(f)
    IN  [d \in 1..Len(dirs) |-> StrileOffsets(f, dirs[d])] \o <<>>
AllStrileLengths(f) ==
    LET dirs == Directories(f)
    IN  [d \in 1..Len(dirs) |-> StrileLengths(f, dirs[d])] \o <<>>

\* the sum of the byte counts lens[1..n], lens a sequence of sequences
RECURSIVE TotalLength(_, _)
TotalLength(lens, n) ==
    IF n = 0 THEN 0
    ELSE TotalLength(lens, n - 1) + SumTo(lens[n], Len(lens[n]))

\* the least member of a non-empty set of numbers
Min(S) == CHOOSE x \in S : \A y \in S : x <= y

\* the strip/tile bytecount fields of dir
BytecountFields(dir) == FieldsOf(dir, StrileTags \ StrileOffsetTags)

\* C9: after generate_optimized_file completes, the strip/tile bytecount
\* array of every output directory is byte for byte that of the input
\* directory, and every relocated segment takes the bytes of its input byte
\* count: the segments lie inside the file without overlap, and from the
\* first of them to the end of the file there are as many bytes as the input
\* byte counts add up to.
C9_LengthsPreserved ==
    pc = "done" =>
        LET ind == Directories(in_file)
            outd == Directories(out_file)
            offs == AllStrileOffsets(out_file)
            lens == AllStrileLengths(in_file)
            segs == Segments(in_file)
        IN  /\ Len(outd) = Len(ind)
            /\ \A d \in 1..Len(ind) :
                  LET bi == BytecountFields(ind[d])
                      bo == BytecountFields(outd[d])
                  IN  /\ Len(bo) = Len(bi)
                      /\ \A j \in 1..Len(bi) :
                            /\ bo[j].type = bi[j].type
                            /\ bo[j].count = bi[j].count
                            /\ IF OutOfLine(bi[j])
                               THEN /\ HasPayload(out_file, bo[j])
                                    /\ Payload(out_file, bo[j])
                                       = Payload(in_file, bi[j])
                               ELSE bo[j].word = bi[j].word
                  /\ Len(offs[d]) = Len(lens[d])
            /\ \A sg \in segs :
                  offs[sg[1]][sg[2]] + lens[sg[1]][sg[2]] <= BLen(out_file)
            /\ \A sg \in segs : \A sh \in segs :
                  (sg # sh /\ lens[sg[1]][sg[2]] > 0 /\ lens[sh[1]][sh[2]] > 0)
                  => \/ offs[sg[1]][sg[2]] + lens[sg[1]][sg[2]]
                        <= offs[sh[1]][sh[2]]
                     \/ offs[sh[1]][sh[2]] + lens[sh[1]][sh[2]]
                        <= offs[sg[1]][sg[2]]
            /\ (segs # {})
                  => (BLen(out_file)
                      - Min({offs[sg[1]][sg[2]] : sg \in segs})
                      = TotalLength(lens, Len(lens)))

\* a completed run over several directories with segments of different
\* byte counts, one of them of zero bytes
C9_Witness ==
    /\ pc = "done"
    /\ Len(Directories(out_file)) >= 2
    /\ \E sg \in Segments(in_file) :
          AllStrileLengths(in_file)[sg[1]][sg[2]] = 0
    /\ \E sg \in Segments(in_file) :
          AllStrileLengths(in_file)[sg[1]][sg[2]] >= 4
    /\ AllStrileLengths(out_file) = AllStrileLengths(in_file)

\* the type codes of the type-size table
KnownTypes == (1..13) \cup {16, 17, 18}

\* every field of directory dir declares a type of the table
AllTypesKnown(dir) ==
    \A j \in 1..Len(dir.fields) : dir.fields[j].type \in KnownTypes

\* C10: a run whose input does not start with the bytes 49 49 2A 00 never
\* gets past the opening of the files, where it aborts without a byte of
\* output; and whenever the directory loop is back at its head, no directory
\* it has taken in has a field that declares a type code outside the
\* type-size table (1..13, 16, 17, 18), and the input of a run past the
\* directory loop has no such field in any directory: such a run aborts in
\* the directory loop and does not complete.
C10_BadInputAborts ==
    /\ (ReadAt(in_file, 0, 4) # FromBytes(<<73, 73, 42, 0>>))
          => (pc \in {"start", "aborted"} /\ out_file = <<>>)
    /\ LET ind == Directories(in_file)
       IN  /\ (pc = "ifd_loop")
                 => \A k \in 1..Len(ifds) : AllTypesKnown(ind[k])
           /\ (pc \in {"strile_arrays", "patch_last", "done"})
                 => \A k \in 1..Len(ind) : AllTypesKnown(ind[k])

\* a run aborted in the directory loop, after a first directory, at a
\* directory with a field of a type code outside the table
C10_Witness ==
    /\ pc = "aborted"
    /\ err = "KeyError"
    /\ Len(ifds) >= 1
    /\ Len(Directories(in_file)) > Len(ifds)
    /\ ~AllTypesKnown(Directories(in_file)[Len(ifds) + 1])

\* the out-of-line fields of dir with the given id: what the loop of lines
\* 419-444 puts in tagdict when the cache does not know their content
Deferred(dir, id) ==
    SelectSeq(dir.fields, LAMBDA fld : fld.id = id /\ OutOfLine(fld))

\* the directory has a deferred offset array and a deferred bytecount array,
\* of strips when it has deferred strip offsets and of tiles otherwise, both
\* of the same number of values, a multiple of the number of bands nb
RegularStriles(dir, nb) ==
    LET strips == Deferred(dir, TIFFTAG_STRIPOFFSETS) # <<>>
        offs == Deferred(dir, IF strips THEN TIFFTAG_STRIPOFFSETS
                              ELSE TIFFTAG_TILEOFFSETS)
        lens == Deferred(dir, IF strips THEN TIFFTAG_STRIPBYTECOUNTS
                              ELSE TIFFTAG_TILEBYTECOUNTS)
    IN  /\ offs # <<>>
        /\ lens # <<>>
        /\ offs[1].count = lens[1].count
        /\ offs[1].count % nb = 0

\* C11: a run of generate_optimized_file never takes the primary-band pass
\* past an input directory whose number of strips/tiles is not a multiple of
\* the band count, whose offset and bytecount arrays differ in their number
\* of values, or that has no deferred offset and bytecount arrays; so no later
\* pass runs and the run does not complete.
C11_IrregularDirectoryAborts ==
    pc \in {"primary", "accuracy", "offset_arrays", "patch_last", "done"} =>
        LET ind == Directories(in_file)
            passed == IF pc = "primary" THEN idx - 1 ELSE Len(ifds)
        IN  \A d \in 1..passed : RegularStriles(ind[d], nbands)

\* a run aborted by the primary-band pass at its second directory, whose
\* offset and bytecount arrays differ in their number of values, after the
\* strips/tiles of the first directory were copied
C11_Witness ==
    /\ pc = "aborted"
    /\ err = "AssertionError"
    /\ next_ifd_offset = 0
    /\ idx = 2
    /\ Len(ifds) = 2
    /\ ifds[1].num_striles_per_band > 0
    /\ LET dir == Directories(in_file)[2]
       IN  /\ Deferred(dir, TIFFTAG_STRIPOFFSETS) # <<>>
           /\ Deferred(dir, TIFFTAG_STRIPBYTECOUNTS) # <<>>
           /\ Deferred(dir, TIFFTAG_STRIPOFFSETS)[1].count
              # Deferred(dir, TIFFTAG_STRIPBYTECOUNTS)[1].count

\* the offsets of the directories on the chain of f
ChainOffsets(f) ==
    LET dirs == Directories(f)
    IN  {dirs[k].offset : k \in 1..Len(dirs)}

\* C12 as stated: the directory loop of generate_optimized_file ends on
\* every input.  A turn of the loop depends on the input and the offset of
\* the directory only, so the loop ends exactly when no directory is read a
\* second time: the run has read at most as many directories as there are
\* on the chain of the input.
C12_NoDirectoryReadTwice ==
    Len(ifds) <= Cardinality(ChainOffsets(in_file))

\* C13 as stated: when generate_optimized_file is left, by its last line or
\* by an exception, every file object it opened has been closed.
C13_HandlesClosedOnExit ==
    pc \in {"done", "aborted"} => open_files = {}

\* a run, alone, ends as the function of its input says
AloneAgrees ==
    pc \in {"done", "aborted"} =>
        LET r == Alone(in_file, nbands)
        IN  r.out = out_file /\ r.err = err

\* C14: of two runs of generate_optimized_file on files of their own, under
\* any interleaving of their steps, each ends with the output and the
\* exception of the run alone on its input, and over every step the run that
\* was not taking steps keeps its cache, its pending tags, its directory list
\* and all the rest of its state, whether it stays off or is put on.
C14_InterleavedRunsAsAlone ==
    [][/\ pc' \in {"done", "aborted"} =>
            LET r == Alone(in_file', nbands')
            IN  r.out = out_file' /\ r.err = err'
       /\ other # <<>> => other' = other \/ ThisRun' = other]_vars

\* both runs have completed, each after steps of the other, and the caches
\* of the two hold the same content at different offsets
C14_Witness ==
    /\ other # <<>>
    /\ pc = "done"
    /\ other.pc = "done"
    /\ in_file # other.in_file
    /\ \E data \in DOMAIN offlinedata_to_offset
                    \cap DOMAIN other.offlinedata_to_offset :
          offlinedata_to_offset[data] # other.offlinedata_to_offset[data]

\* C16 as stated: a run of create_unoptimized_file that was given a
\* description ends completed, with exactly that description as the image
\* description of directory 0 and no image description on the others.
C16_GivenDescriptionStored ==
    cpc \in {"done", "aborted"} /\ args.description # "" =>
        /\ cpc = "done"
        /\ tmp_dirs[1].image_description = args.description
        /\ \A k \in 2..Len(tmp_dirs) : tmp_dirs[k].image_description = ""

\* where f has a 4-byte pointer the run writes as a placeholder first: the
\* first-directory pointer of the header (line 386), the chain pointer of
\* every directory record (line 449), the value word of every out-of-line
\* field (line 444)
PlaceholderLocations(f) ==
    LET dirs == Directories(f)
    IN  (IF Readable(f, 4, 4) THEN {4} ELSE {})
        \cup UNION {{dirs[d].end - 4}
                    \cup {dirs[d].fields[j].at :
                            j \in {i \in 1..Len(dirs[d].fields) :
                                      OutOfLine(dirs[d].fields[i])}} :
                    d \in 1..Len(dirs)}

\* C17: in a run of generate_optimized_file, the four bytes at a
\* placeholder location change only from the placeholder to a resolved
\* value, so at most once; and when the run completes, every directory
\* written is on the chain and no placeholder location holds the
\* placeholder.
C17_PlaceholdersResolvedOnce ==
    [][/\ \A l \in PlaceholderLocations(out_file) :
              ReadAt(out_file', l, 4) # ReadAt(out_file, l, 4) =>
                  /\ ReadAt(out_file, l, 4) = DEADBEEF
                  /\ ReadAt(out_file', l, 4) # DEADBEEF
       /\ pc' = "done" =>
              /\ Len(Directories(out_file')) = Len(ifds')
              /\ \A l \in PlaceholderLocations(out_file') :
                     ReadAt(out_file', l, 4) # DEADBEEF]_vars

\* a completed run of three directories, each with out-of-line fields, the
\* later two with GDAL metadata of their own
C17_Witness ==
    /\ pc = "done"
    /\ Len(ifds) = 3
    /\ \A d \in 1..3 : Len(ifds[d].tagdict) >= 3
    /\ \A d \in 2..3 : HasTag(ifds[d].tagdict, TIFFTAG_GDAL_METADATA)
    /\ Cardinality(PlaceholderLocations(out_file)) >= 13

\* the out-of-line strip/tile offset and bytecount fields of dir
DeferredStrileFields(dir) ==
    SelectSeq(dir.fields, LAMBDA fld : fld.id \in StrileTags /\ OutOfLine(fld))

\* C18 as stated: when generate_optimized_file has copied the entries of a
\* directory, every out-of-line strip/tile offset or bytecount field of it
\* is a pending tag with a placeholder in its entry, whatever the cache
\* holds; and no offset in the cache is the offset of a strip/tile array of
\* a completed output.
C18_StrileFieldsNeverFromCache ==
    /\ pc = "offline_tags" =>
           LET ind == Directories(in_file)
               d == Len(ifds) + 1
           IN  d <= Len(ind) =>
                   \A j \in 1..Len(DeferredStrileFields(ind[d])) :
                       LET fld == DeferredStrileFields(ind[d])[j]
                       IN  /\ HasTag(tagdict, fld.id)
                           /\ ReadAt(out_file,
                                     GetTag(tagdict, fld.id)
                                         .fileoffset_in_out_ifd, 4) = DEADBEEF
    /\ pc = "done" =>
           LET outd == Directories(out_file)
           IN  \A d \in 1..Len(outd) :
                   \A j \in 1..Len(DeferredStrileFields(outd[d])) :
                       \A data \in DOMAIN offlinedata_to_offset :
                           offlinedata_to_offset[data]
                           # Pointer(DeferredStrileFields(outd[d])[j])

LastChainPointer(f) ==
    LET dirs == Directories(f)
    IN  IF dirs = <<>> THEN 4 ELSE dirs[Len(dirs)].end - 4

\* C20: in a run of generate_optimized_file, the chain pointer of the last
\* directory written holds the placeholder after every step of the directory
\* loop and of the passes that follow it; the step that completes the run,
\* after which the function only closes its files, comes after the
\* offset-array pass and changes the output only in that pointer, which
\* becomes zero.
C20_LastPointerZeroedLast ==
    [][/\ pc' \in {"ifd_loop", "offline_tags", "strile_arrays",
                    "gdal_metadata", "primary", "accuracy", "offset_arrays",
                    "patch_last"} =>
              ReadAt(out_file', next_ifd_offset_out_offset', 4) = DEADBEEF
       /\ pc' = "done" =>
              LET at == LastChainPointer(out_file')
              IN  /\ pc = "patch_last"
                  /\ at = next_ifd_offset_out_offset
                  /\ ReadAt(out_file, at, 4) = DEADBEEF
                  /\ out_file' = WriteAt(out_file, at, PackI(0))]_vars

\* a completed run of several directories: the chain pointer of the last
\* one is zero, the cursor is just after it, and the payloads, the pixel
\* segments and the offset arrays written before lie after it in the file
C20_Witness ==
    /\ pc = "done"
    /\ Len(ifds) >= 2
    /\ ReadAt(out_file, next_ifd_offset_out_offset, 4) = PackI(0)
    /\ out_pos = next_ifd_offset_out_offset + 4
    /\ \A d \in 1..Len(ifds) :
          /\ ifds[d].offset_out_offsets > out_pos
          /\ \A i \in 1..Len(ifds[d].strile_offset_out) :
                ifds[d].strile_offset_out[i] > out_pos

\* the offsets at which the resolved descriptive fields of f keep content
\* data
CopiesOf(f, data) ==
    LET dirs == Directories(f)
    IN  UNION {{Pointer(dirs[d].fields[j]) :
                   j \in {i \in 1..Len(dirs[d].fields) :
                             /\ Descriptive(dirs[d].fields[i])
                             /\ HasPayload(f, dirs[d].fields[i])
                             /\ Payload(f, dirs[d].fields[i]) = data}} :
               d \in 1..Len(dirs)}

\* C21 as stated: over every step of a run, content that is in the cache
\* stays in it with the offset it has; and between two directories every
\* cached offset is an offset at which the output holds that content, the
\* only one at which a field of the output keeps it.
C21_CacheKeepsFirstOffset ==
    [][/\ \A data \in DOMAIN offlinedata_to_offset :
              /\ data \in DOMAIN offlinedata_to_offset'
              /\ offlinedata_to_offset'[data] = offlinedata_to_offset[data]
       /\ pc' = "ifd_loop" =>
              \A data \in DOMAIN offlinedata_to_offset' :
                  /\ ReadAt(out_file', offlinedata_to_offset'[data],
                            BLen(data)) = data
                  /\ CopiesOf(out_file', data)
                     = {offlinedata_to_offset'[data]}]_vars

\* the fields of the two directory records agree in number, order, id, type
\* and count, and the fields that keep their values in the entry agree in
\* the value word
SameEntries(a, b) ==
    /\ Len(a.fields) = Len(b.fields)
    /\ \A j \in 1..Len(a.fields) :
          /\ a.fields[j].id = b.fields[j].id
          /\ a.fields[j].type = b.fields[j].type
          /\ a.fields[j].count = b.fields[j].count
          /\ ~OutOfLine(a.fields[j]) => a.fields[j].word = b.fields[j].word

\* C22: the step of generate_optimized_file that copies a directory writes
\* a record with the fields of the input directory, in their order, with
\* their id, type and count, the value word of every field of at most 4
\* bytes as it is, and for every larger field the placeholder or the offset
\* the cache has for its content, whatever the input offset is; and the
\* directories of a completed output still agree with the input ones.
C22_EntriesCopiedPointersNot ==
    [][/\ pc = "ifd_loop" /\ pc' = "offline_tags" =>
              \A a \in {DirAt(in_file, next_ifd_offset)},
                 b \in {DirAt(out_file', out_pos + (out_pos % 2))} :
                  /\ SameEntries(a, b)
                  /\ \A j \in 1..Len(a.fields) :
                        OutOfLine(a.fields[j]) =>
                            LET data == Payload(in_file, a.fields[j])
                            IN  b.fields[j].word =
                                    IF data \in DOMAIN offlinedata_to_offset
                                    THEN PackI(offlinedata_to_offset[data])
                                    ELSE DEADBEEF
       /\ pc' = "done" =>
              \A ind \in {Directories(in_file)},
                 outd \in {Directories(out_file')} :
                  /\ Len(ind) = Len(outd)
                  /\ \A d \in 1..Len(ind) : SameEntries(ind[d], outd[d])]_vars

\* a completed run of several directories with fields in the entry and out
\* of line, in which a field resolved from the cache and a field resolved
\* later both have a pointer that is not the input offset
C22_Witness ==
    /\ pc = "done"
    /\ LET ind == Directories(in_file)
           outd == Directories(out_file)
       IN  /\ Len(ind) >= 2
           /\ \E j \in 1..Len(ind[1].fields) : ~OutOfLine(ind[1].fields[j])
           /\ \E j \in 1..Len(ind[2].fields) :
                 /\ Descriptive(ind[2].fields[j])
                 /\ Pointer(outd[2].fields[j]) < outd[2].offset
                 /\ Pointer(outd[2].fields[j]) # Pointer(ind[2].fields[j])
           /\ \E j \in 1..Len(ind[2].fields) :
                 /\ ind[2].fields[j].id \in StrileTags
                 /\ OutOfLine(ind[2].fields[j])
                 /\ Pointer(outd[2].fields[j]) # Pointer(ind[2].fields[j])

\* the strips/tiles of a directory with per_band of them to a band, in the
\* order of the loops of lines 533-534 and 546-547 over the group of bands
\* b1, b1 + 1: ordinal 0 of b1, ordinal 0 of b1 + 1, ordinal 1 of b1, ...
WriteOrder(per_band, b1) ==
    [k \in 1..(2 * per_band) |->
        per_band * (b1 + ((k - 1) % 2)) + ((k - 1) \div 2) + 1]

\* C23: each step of the primary pass and of the accuracy pass takes the
\* next directory in directory order and writes its segments of the group
\* from the write cursor on, in the order first band ordinal i, second band
\* ordinal i, first band ordinal i + 1, ...: the first segment is recorded
\* at the cursor, each further one where the one before it ends, and the
\* cursor ends where the last one ends, so that the offsets are
\* non-decreasing along that order and one directory's segments of a group
\* are one contiguous block; passing from the primary to the accuracy region
\* leaves the cursor where it is.
C23_SegmentsInWriteOrder ==
    [][/\ (pc \in {"primary", "accuracy"} /\ pc' = pc) =>
              \A ifd \in {ifds'[idx]} :
                 LET order == WriteOrder(ifd.num_striles_per_band,
                                         IF pc = "primary" THEN 0 ELSE 2)
                     off == ifd.strile_offset_out
                     len == ifd.strile_length_in
                     n == Len(order)
                 IN  /\ idx' = idx + 1
                     /\ n > 0 => /\ off[order[1]] = out_pos
                                 /\ out_pos' = off[order[n]] + len[order[n]]
                     /\ n = 0 => out_pos' = out_pos
                     /\ \A k \in 1..(n - 1) :
                           /\ off[order[k + 1]] = off[order[k]] + len[order[k]]
                           /\ off[order[k]] <= off[order[k + 1]]
       /\ (pc = "primary" /\ pc' = "accuracy") =>
              (out_pos' = out_pos /\ out_file' = out_file)]_vars

\* a completed run with four bands over two directories or more, the first
\* with two segments or more to a band, of different lengths within a group
C23_Witness ==
    /\ pc = "done"
    /\ nbands = 4
    /\ Len(ifds) >= 2
    /\ ifds[1].num_striles_per_band >= 2
    /\ ifds[1].strile_length_in[1]
          # ifds[1].strile_length_in[ifds[1].num_striles_per_band + 1]
    /\ ifds[2].strile_offset_out[1] > ifds[1].strile_offset_out[1]

\* the six bytes '%06d' % v of a value v below HintLimit
SixDigits(v) ==
    <<48 + ((v \div 100000) % 10), 48 + ((v \div 10000) % 10),
      48 + ((v \div 1000) % 10), 48 + ((v \div 100) % 10),
      48 + ((v \div 10) % 10), 48 + (v % 10)>>

\* C24: the step that patches the metadata-size marker, taken when the
\* directory loop has ended with the write cursor at the boundary offset,
\* either replaces the 28 bytes of the placeholder line by the prefix, the
\* boundary offset as six zero-padded decimal digits and the suffix, and
\* leaves every other byte and the length of the output as they are, when
\* the boundary offset is below 1,000,000; or, when it is 1,000,000 or more,
\* aborts with an AssertionError and writes nothing.
C24_MarkerPatchInPlace ==
    [][(pc = "ifd_loop" /\ next_ifd_offset = 0 /\ pc' # pc) =>
          LET at == essential_metadata_size_hint_offset_to_patch
              n == BLen(dummy_metadata_hint)
          IN  IF out_pos < HintLimit
              THEN /\ pc' = "strile_arrays"
                   /\ BLen(out_file') = BLen(out_file)
                   /\ ReadAt(out_file', 0, at) = ReadAt(out_file, 0, at)
                   /\ ReadAt(out_file', at + n, BLen(out_file))
                         = ReadAt(out_file, at + n, BLen(out_file))
                   /\ ReadAt(out_file, at, n) = dummy_metadata_hint
                   /\ ToBytes(ReadAt(out_file', at, n))
                         = HintPrefix \o SixDigits(out_pos) \o HintSuffix
              ELSE /\ pc' = "aborted"
                   /\ err' = "AssertionError"
                   /\ out_file' = out_file]_vars

\* the marker was patched with a boundary offset of six digits, no padding
C24_Witness ==
    /\ pc = "done"
    /\ BLen(out_file) > HintLimit
    /\ ToBytes(ReadAt(out_file, essential_metadata_size_hint_offset_to_patch
                                   + Len(HintPrefix), 6))
          = SixDigits(HintLimit - 1)

\* a run aborted at the marker with the boundary offset at HintLimit or more
C24_WitnessAbort ==
    /\ pc = "aborted"
    /\ err = "AssertionError"
    /\ next_ifd_offset = 0
    /\ out_pos >= HintLimit
    /\ BLen(out_file) = out_pos
    /\ ReadAt(out_file, essential_metadata_size_hint_offset_to_patch,
              BLen(dummy_metadata_hint)) = dummy_metadata_hint

\* C25: each turn of the directory loop that copies a directory starts its
\* record at the write cursor when the cursor is even and, when it is odd,
\* one byte further, after one zero byte; that offset is even, it is the
\* value patched into the pointer the previous turn (or the header) left to
\* be linked, and the record that starts there has the field count of the
\* input directory and ends with the next pointer to be linked; and in a
\* completed run every directory of the output starts at an even offset.
C25_DirectoriesStartEven ==
    [][/\ (pc = "ifd_loop" /\ pc' = "offline_tags") =>
              LET start == out_pos + (out_pos % 2)
                  head == ReadAt(in_file, next_ifd_offset, 2)
              IN  /\ start % 2 = 0
                  /\ start - out_pos \in {0, 1}
                  /\ BTake(out_file', out_pos)
                        = WriteAt(out_file, next_ifd_offset_out_offset,
                                  PackI(start))
                  /\ (out_pos % 2 = 1)
                        => ReadAt(out_file', out_pos, 1) = Fill(0, 1)
                  /\ UnpackI(ReadAt(out_file', next_ifd_offset_out_offset, 4))
                        = start
                  /\ ReadAt(out_file', start, 2) = head
                  /\ next_ifd_offset_out_offset'
                        = start + 2 + 12 * UnpackH(head)
                  /\ out_pos' = next_ifd_offset_out_offset' + 4
       /\ pc' = "done" =>
              \A outd \in {Directories(out_file')} :
                 \A d \in 1..Len(outd) : outd[d].offset % 2 = 0]_vars

\* a completed run in which a directory after the first starts one byte
\* after the end of a payload of the directory before it
C25_Witness ==
    /\ pc = "done"
    /\ LET outd == Directories(out_file)
       IN  \E d \in 2..Len(outd) :
              \E j \in 1..Len(outd[d - 1].fields) :
                 /\ Descriptive(outd[d - 1].fields[j])
                 /\ HasPayload(out_file, outd[d - 1].fields[j])
                 /\ Pointer(outd[d - 1].fields[j])
                       + FieldSize(outd[d - 1].fields[j])
                       = outd[d].offset - 1

(***************************************************************************)
(* Properties of convert_all.py                                            *)
(***************************************************************************)

\* C15: in convert_all.py, the turn of the loop for a row whose destination
\* .tif exists, when --overwrite is not given, runs no conversion step,
\* leaves the destination as it is, and goes on to the next row.
C15_ExistingDestinationSkipped ==
    [][(/\ mpc = "rows"
        /\ row_idx <= Len(rows)
        /\ Exists(Dest(rows[row_idx]))
        /\ ~overwrite)
       => LET dest == Dest(rows[row_idx])
          IN  /\ steps' = steps
              /\ dest \in DOMAIN files'
              /\ files'[dest] = files[dest]
              /\ row_idx' = row_idx + 1
              /\ mpc' = "rows"]_vars

\* the script has ended without --overwrite: its first row was converted,
\* and its second row, found and of a type that is converted, was passed
\* without a step because its destination was there from an earlier run
C15_Witness ==
    /\ mpc = "done"
    /\ ~overwrite
    /\ only = ""
    /\ Len(rows) = 2
    /\ rows[2].found
    /\ rows[2].type = "VERTICAL_OFFSET_GEOGRAPHIC_TO_VERTICAL"
    /\ Exists(Dest(rows[2]))
    /\ files[Dest(rows[2])] = <<"old">>
    /\ \E k \in 1..Len(steps) : steps[k] = <<1, "generate_optimized_file">>
    /\ \A k \in 1..Len(steps) : steps[k][1] # 2

\* C26: when the script has ended, after its last row or by an exception,
\* no temporary baseline file <dest>.tmp of a HORIZONTAL_OFFSET row exists.
C26_TmpRemovedWhenRunEnds ==
    mpc \in {"done", "aborted"} =>
        \A i \in 1..Len(rows) :
           rows[i].type = "HORIZONTAL_OFFSET" => ~Exists(Tmp(rows[i]))

(***************************************************************************)
(* Properties of create_unoptimized_file                                   *)
(***************************************************************************)

\* the items of a directory of tmpfilename that name the target CRS
TargetCRSItems(dir) ==
    dir.items \cap {"target_crs_epsg_code", "target_crs_wkt"}

\* C8: the compact/verbose decision is made once from the number N of grids
\* (the main grid and the sub-grids): compact when N > 50.  The band
\* descriptions and unit types and the target-CRS item are set on the first
\* directory for every N, and on a later directory if and only if N <= 50.
C8_CompactAboveFifty ==
    /\ (cpc # "start") => (compact_md = (num_subdatsets > 50))
    /\ \A k \in 1..Len(tmp_dirs) :
          IF k = 1 \/ num_subdatsets <= 50
          THEN /\ tmp_dirs[k].described = 1..args.nbands
               /\ TargetCRSItems(tmp_dirs[k]) # {}
          ELSE /\ tmp_dirs[k].described = {}
               /\ TargetCRSItems(tmp_dirs[k]) = {}

\* a completed run over 51 grids: the first directory carries the items and
\* the 51st does not
C8_Witness ==
    /\ cpc = "done"
    /\ num_subdatsets = 51
    /\ Len(tmp_dirs) = 51
    /\ tmp_dirs[1].described # {}
    /\ tmp_dirs[51].described = {}
    /\ TargetCRSItems(tmp_dirs[51]) = {}

=============================================================================
